---- MODULE Spec2Model ----
(***************************************************************************)
(* Model of the coach-dashboard ETL (src/src/main.py) and of the dashboard *)
(* loader (src/src/dashboard.py).                                          *)
(*                                                                         *)
(* Text values are sequences of one-character strings, so that str.lower,  *)
(* str.strip, the `in` substring test and list membership are computed as  *)
(* Python computes them.  The token "e_acute" stands for the character     *)
(* U+00E9.  Instants are integers counting half days (12 h) since          *)
(* 2024-01-01 00:00; an even instant is a midnight.                        *)
(*                                                                         *)
(* Spec follows one deal through run_pipeline's loop body and one row      *)
(* through load_data; RunSpec follows run_pipeline's batch from the search *)
(* windows to the export; CallSpec calls the parsing helpers and            *)
(* compute_summary_stats (src/src/app.py) on their own.                    *)
(***************************************************************************)
EXTENDS Integers, Sequences, FiniteSets, TLC

VARIABLES phase, deal, out, row, view, run, call

vars == <<phase, deal, out, row, view, run, call>>

(* ------------------------------ bounds --------------------------------- *)

\* Input dates lie at most this many half days before or after a threshold.
DateSpread == 2

\* The CRM holds a further page of a window only below this cursor.
MaxAfter == 100

\* A run starts one search window after the first window's start, or this
\* many half days later.
ExtraHalfDays == 12

\* Durations lie at most this many seconds below or above 24 hours, or are
\* one of a few others.
DurSpread == 60

\* A series of lead times handed to compute_summary_stats has at most this
\* many values.
MaxSeries == 3

(* --------------------------- text primitives --------------------------- *)

\* str.lower: the characters it changes
LowerTable ==
    [c \in {"A", "B", "C", "D", "E", "F", "G", "H", "I", "J", "K", "L", "M",
            "N", "O", "P", "Q", "R", "S", "T", "U", "V", "W", "X", "Y", "Z",
            "E_acute"} |->
        CASE c = "A" -> "a" [] c = "B" -> "b" [] c = "C" -> "c" [] c = "D" -> "d"
          [] c = "E" -> "e" [] c = "F" -> "f" [] c = "G" -> "g" [] c = "H" -> "h"
          [] c = "I" -> "i" [] c = "J" -> "j" [] c = "K" -> "k" [] c = "L" -> "l"
          [] c = "M" -> "m" [] c = "N" -> "n" [] c = "O" -> "o" [] c = "P" -> "p"
          [] c = "Q" -> "q" [] c = "R" -> "r" [] c = "S" -> "s" [] c = "T" -> "t"
          [] c = "U" -> "u" [] c = "V" -> "v" [] c = "W" -> "w" [] c = "X" -> "x"
          [] c = "Y" -> "y" [] c = "Z" -> "z" [] OTHER -> "e_acute"]

\* str.lower on one character
LowerChar(c) == IF c \in DOMAIN LowerTable THEN LowerTable[c] ELSE c

Lower(s) == [i \in 1..Len(s) |-> LowerChar(s[i])]

IsSpace(c) == c \in {" ", "\t", "\n"}

RECURSIVE LStrip(_)
LStrip(s) == IF s # <<>> /\ IsSpace(Head(s)) THEN LStrip(Tail(s)) ELSE s

RECURSIVE RStrip(_)
RStrip(s) ==
    IF s # <<>> /\ IsSpace(s[Len(s)]) THEN RStrip(SubSeq(s, 1, Len(s) - 1)) ELSE s

Strip(s) == RStrip(LStrip(s))

\* Python's `sub in s` on strings
Contains(sub, s) ==
    \E i \in 0..(Len(s) - Len(sub)) : \A j \in 1..Len(sub) : s[i + j] = sub[j]

\* Python's any(v in s for v in group)
AnyIn(group, s) == \E k \in 1..Len(group) : Contains(group[k], s)

\* Python's `s in group` on a list of strings
InList(s, group) == \E k \in 1..Len(group) : group[k] = s

s_nan == <<"n", "a", "n">>
s_none == <<"n", "o", "n", "e">>
s_afgesloten == <<"a", "f", "g", "e", "s", "l", "o", "t", "e", "n">>
s_actief == <<"a", "c", "t", "i", "e", "f">>
s_verloren == <<"v", "e", "r", "l", "o", "r", "e", "n">>

(* ------------------------------ instants ------------------------------- *)

\* pd.NaT / None: the absent instant
NaT == -1

IsNull(t) == t = NaT

\* pd.Timestamp('2024-11-01'), the cut-over of the VGZ group
TS_VGZ == 610

\* pd.Timestamp('2024-08-01'), the cut-over of the DSW group
TS_DSW == 426

\* pd.Timestamp('2024-11-01'), the cut-over of the other insurers
TS_OVERIG == 610

(* ------------------------ dashboard.py: constants ---------------------- *)

VGZ_GROUP ==
    << <<"v", "g", "z">>, <<"u", "n", "i", "v", "e">>,
       <<"u", "n", "i", "v", "e_acute">>, <<"b", "e", "w", "u", "z", "t">>,
       <<"i", "z", "z">>, <<"i", "z", "a">>, <<"u", "m", "c">>,
       <<"z", "e", "k", "u", "r">>, <<"k", "u">> >>

DSW_GROUP ==
    << <<"d", "s", "w">>,
       <<"s", "t", "a", "d", " ", "h", "o", "l", "l", "a", "n", "d">>,
       <<"i", "n", "t", "w", "e", "n", "t", "e">>, <<"r", "m", "a">>,
       <<"r", "m", "o">>, <<"s", "v", "z", "k">> >>

ACTIVE_STAGES ==
    [s \in {"114855767", "15415582", "15415583", "15415584", "114803327",
            "15413222", "15413223", "15413630", "15413631"} |->
        CASE s = "114855767" -> "Warme aanvraag"
          [] s = "15415582" -> "Informatie aangevraagd"
          [] s = "15415583" -> "Gebeld, geen gehoor"
          [] s = "15415584" -> "Bereikt, later terugbellen"
          [] s = "114803327" -> "Bereikt, belafspraak ingepland"
          [] s = "15413222" -> "Intake gepland"
          [] s = "15413223" -> "In begeleiding"
          [] s = "15413630" -> "Tijdelijk stoppen (50%)"
          [] OTHER -> "Start later"]

TERMINAL_STAGES ==
    [s \in {"15413226", "15413632", "25956255"} |->
        IF s = "15413226" THEN "Afgesloten / Gewonnen"
                          ELSE "Geen interesse / Verloren"]

(* ------------------------ dashboard.py: load_data ---------------------- *)

\* The cells pandas.read_csv reads as NaN (its default na_values that occur
\* in the export); str() of NaN is 'nan'.
NaCells ==
    { <<>>, s_nan, <<"N", "a", "N">>, <<"N", "o", "n", "e">>,
      <<"N", "U", "L", "L">>, <<"n", "u", "l", "l">>, <<"N", "A">> }

\* str(row.get(col, '')): '' for a column the file lacks, 'nan' for a NaN cell
RowStr(r, col, cell) ==
    IF col \notin r.cols THEN <<>>
    ELSE IF cell \in NaCells THEN s_nan ELSE cell

\* df[col].astype(str) of a column the file holds
ColStr(cell) == IF cell \in NaCells THEN s_nan ELSE cell

\* is_terminal and Is_Actief
IsTerminal(r) == r.dealstage \in DOMAIN TERMINAL_STAGES

\* Is_Actief without the terminal-stage guard
IsActief_BucketOnly(r) ==
    IF "status_bucket" \in r.cols
    THEN ColStr(r.status_bucket) = s_actief
    ELSE r.dealstage \in DOMAIN ACTIVE_STAGES

IsActief(r) ==
    IF "status_bucket" \in r.cols
    THEN ColStr(r.status_bucket) = s_actief /\ ~IsTerminal(r)
    ELSE r.dealstage \in DOMAIN ACTIVE_STAGES

\* mask_closed_lost
MaskClosedLost(r) ==
    /\ "status_bucket" \in r.cols
    /\ "dealstage_label" \in r.cols
    /\ ColStr(r.status_bucket) = s_verloren
    /\ Lower(Strip(ColStr(r.dealstage_label))) = s_afgesloten

\* the column Fase
Fase(r) ==
    LET mapped == IF r.dealstage \in DOMAIN ACTIVE_STAGES
                  THEN ACTIVE_STAGES[r.dealstage]
                  ELSE IF r.dealstage \in DOMAIN TERMINAL_STAGES
                       THEN TERMINAL_STAGES[r.dealstage]
                       ELSE "NaN"
        closed == IF MaskClosedLost(r) THEN "Geen interesse / Verloren"
                                       ELSE mapped
        lost == IF closed = "NaN" /\ ~IsActief(r)
                THEN "Geen interesse / Verloren" ELSE closed
    IN IF lost = "NaN" THEN "Overig" ELSE lost

\* dt_in_begeleiding falling back on the stage-entry date in every stage
DtInBegeleiding_AnyStage(r) ==
    LET a == r.ts_in_begeleiding
        b == IF IsNull(a) THEN r.date_entered_stage ELSE a
    IN IF IsNull(b) THEN r.createdate ELSE b

\* dt_in_begeleiding with its fallbacks
DtInBegeleiding(r) ==
    LET a == r.ts_in_begeleiding
        b == IF IsNull(a) /\ r.dealstage = "15413223"
             THEN r.date_entered_stage ELSE a
    IN IF IsNull(b) THEN r.createdate ELSE b

\* dt_afgesloten falling back on the stage-entry date in every stage
DtAfgesloten_AnyStage(r) ==
    LET a == r.datum_afgesloten
        b == IF IsNull(a) THEN r.date_entered_stage ELSE a
    IN IF IsNull(b) THEN r.createdate ELSE b

\* dt_afgesloten with its fallbacks
DtAfgesloten(r) ==
    LET a == r.datum_afgesloten
        b == IF IsNull(a) /\ r.dealstage = "15413226"
             THEN r.date_entered_stage ELSE a
    IN IF IsNull(b) THEN r.createdate ELSE b

\* verz = str(row.get('verzekeraar', '')).lower().strip()
DashVerz(r) == Strip(Lower(RowStr(r, "verzekeraar", r.verzekeraar)))

\* str(row.get('vgz_voldoende', '')).strip() == 'Ja'
VgzFlagJa(r) == Strip(ColStr(r.vgz_voldoende)) = <<"J", "a">>

\* str(row.get('dsw_sessie', '')).strip() == 'Ja'
DswFlagJa(r) == Strip(ColStr(r.dsw_sessie)) = <<"J", "a">>

\* the VGZ comparison made inclusive
VgzDateOk_Inclusive(dt) == dt >= TS_VGZ

\* dt_afgesloten > pd.Timestamp('2024-11-01')
VgzDateOk(dt) == dt > TS_VGZ

\* dt_in_begeleiding >= pd.Timestamp('2024-08-01')
DswDateOk(dt) == dt >= TS_DSW

\* dt_in_begeleiding > pd.Timestamp('2024-11-01')
OverigDateOk(dt) == dt > TS_OVERIG

\* The branch of the if / elif / else on the insurer that a row takes.
DashGroup(verz) ==
    IF AnyIn(VGZ_GROUP, verz) THEN "VGZ"
    ELSE IF AnyIn(DSW_GROUP, verz) THEN "DSW"
    ELSE "OVERIG"

\* dec_date of determine_declarable_status
DecDate(r) ==
    LET verz == DashVerz(r)
        grp == DashGroup(verz)
        dt_in_begeleiding == DtInBegeleiding(r)
        dt_afgesloten == DtAfgesloten(r)
    IN  IF grp = "VGZ"
        THEN IF VgzFlagJa(r) /\ ~IsNull(dt_afgesloten) /\ VgzDateOk(dt_afgesloten)
             THEN dt_afgesloten ELSE NaT
        ELSE IF grp = "DSW"
        THEN IF /\ DswFlagJa(r)
                /\ ~IsNull(dt_in_begeleiding)
                /\ DswDateOk(dt_in_begeleiding)
             THEN dt_in_begeleiding ELSE NaT
        ELSE IF /\ verz # <<>>
                /\ verz \notin {s_nan, s_none}
                /\ ~IsNull(dt_in_begeleiding)
                /\ OverigDateOk(dt_in_begeleiding)
             THEN dt_in_begeleiding ELSE NaT

DROP_OUT_VALUES ==
    << <<"a", "l", "l", "e", "e", "n">>,
       <<"m", "i", "n", "d", "e", "r", " ", "d", "a", "n", " ", "d", "e", " ",
         "h", "e", "l", "f", "t">> >>

\* is_dropout; begeleiding = str(row.get('begeleiding', '')).strip()
IsDropout(r) == AnyIn(DROP_OUT_VALUES, Lower(Strip(ColStr(r.begeleiding))))

\* determine_declarable_status giving 'In proces' to a declarable row that is
\* not in the won stage
determine_declarable_status_InProces(r) ==
    LET dec_date == DecDate(r)
    IN  IF IsNull(dec_date) THEN <<NaT, "Niet declarabel">>
        ELSE IF r.dealstage # "15413226" THEN <<dec_date, "In proces">>
        ELSE <<dec_date, IF IsDropout(r) THEN "Dropout" ELSE "Volledig">>

\* determine_declarable_status: (datum_declarabel, Declaratie_Type)
determine_declarable_status(r) ==
    LET dec_date == DecDate(r)
    IN  IF IsNull(dec_date) THEN <<NaT, "Niet declarabel">>
        ELSE <<dec_date, IF IsDropout(r) THEN "Dropout" ELSE "Volledig">>

\* dagen_in_fase of a row without a baseline date: NaN
NoDays == -100000

\* dagen_in_fase counted from createdate whenever it is known
DagenInFase_CreatedFirst(r, nu) ==
    LET a == r.createdate
        b == IF IsNull(a) THEN r.date_entered_stage ELSE a
        entered == IF IsNull(b) THEN r.ts_warme_aanvraag ELSE b
    IN IF IsNull(entered) THEN NoDays ELSE (nu - entered) \div 2

\* dagen_in_fase: the whole days from the baseline (date_entered_stage, else
\* ts_warme_aanvraag, else createdate) to nu; .dt.days rounds down
DagenInFase(r, nu) ==
    LET a == r.date_entered_stage
        b == IF IsNull(a) THEN r.ts_warme_aanvraag ELSE a
        entered == IF IsNull(b) THEN r.createdate ELSE b
    IN IF IsNull(entered) THEN NoDays ELSE (nu - entered) \div 2

\* The columns load_data adds to one row of the file when the clock it
\* reads, pd.Timestamp.now(), shows nu.
LoadRow(r, nu) ==
    LET dd == determine_declarable_status(r)
        conv == "status_bucket" \in r.cols
    IN [ nu |-> nu,
         dagen_in_fase |-> DagenInFase(r, nu),
         Is_Actief |-> IsActief(r),
         Fase |-> Fase(r),
         datum_declarabel |-> dd[1],
         Declaratie_Type |-> dd[2],
         has_conv |-> conv,
         Conv_Verloren |-> conv /\ ColStr(r.status_bucket) = s_verloren,
         Conv_Gewonnen |-> conv /\ dd[2] \in {"Dropout", "Volledig"} ]

(* --------------------------- main.py: constants ------------------------ *)

NABELLER_TERMINAL_LOSS_STAGE_IDS == {"81675521", "81675523", "96512011"}

NABELLER_INFLOW_STAGE_IDS == {"116831596", "81686449"}

VGZ_GROEP ==
    << <<"v", "g", "z">>, <<"u", "n", "i", "v", "e">>, <<"u", "m", "c">>,
       <<"i", "z", "z">>, <<"i", "z", "a">>, <<"z", "e", "k", "u", "r">>,
       <<"b", "e", "w", "u", "z", "t">> >>

DSW_GROEP ==
    << <<"d", "s", "w">>,
       <<"s", "t", "a", "d", " ", "h", "o", "l", "l", "a", "n", "d">>,
       <<"i", "n", "t", "w", "e", "n", "t", "e">>, <<"r", "m", "a">>,
       <<"r", "m", "o">>, <<"s", "v", "z", "k">> >>

\* current_start = datetime(2025, 3, 1): the earliest createdate searched for
WindowStart == 850

b_alleen_de_intake ==
    <<"a", "l", "l", "e", "e", "n", " ", "d", "e", " ", "i", "n", "t", "a",
      "k", "e">>

b_intake_en_eerste_themasessie ==
    <<"i", "n", "t", "a", "k", "e", " ", "e", "n", " ", "e", "e", "r", "s",
      "t", "e", " ", "t", "h", "e", "m", "a", "s", "e", "s", "s", "i", "e">>

b_intake_minder ==
    <<"i", "n", "t", "a", "k", "e", " ", "e", "n", " ", "m", "i", "n", "d",
      "e", "r", " ", "d", "a", "n", " ", "d", "e", " ", "h", "e", "l", "f",
      "t", " ", "v", "a", "n", " ", "d", "e", " ", "s", "e", "s", "s", "i",
      "e", "s">>

b_intake_meer ==
    <<"i", "n", "t", "a", "k", "e", " ", "e", "n", " ", "m", "e", "e", "r",
      " ", "d", "a", "n", " ", "d", "e", " ", "h", "e", "l", "f", "t", " ",
      "v", "a", "n", " ", "d", "e", " ", "s", "e", "s", "s", "i", "e", "s">>

b_volledig ==
    <<"v", "o", "l", "l", "e", "d", "i", "g", "e", " ", "b", "e", "g", "e",
      "l", "e", "i", "d", "i", "n", "g", " ", "g", "e", "v", "o", "l", "g",
      "d">>

(* ----------------------- main.py: build_stage_maps --------------------- *)

\* A stage probability that is None
NoProb == -1

\* build_stage_maps storing 0.0 for a probability it cannot parse
ParseProbability_NoneAsZero(prob) ==
    CASE prob = "0.0" -> 0
      [] prob = "0" -> 0
      [] prob = "0.2" -> 20
      [] prob = "1.0" -> 100
      [] OTHER -> 0

\* float(prob) in percent; None for a missing or unparsable probability
ParseProbability(prob) ==
    CASE prob = "0.0" -> 0
      [] prob = "0" -> 0
      [] prob = "0.2" -> 20
      [] prob = "1.0" -> 100
      [] OTHER -> NoProb

\* The places <<i, j>> of the catalog that hold stage sid; the loops visit
\* them in increasing order, a later one overwriting an earlier one.
StagePlaces(pipelines, sid) ==
    { ij \in UNION { {<<i, j>> : j \in 1..Len(pipelines[i].stages)} :
                     i \in 1..Len(pipelines) } :
        pipelines[ij[1]].stages[ij[2]].id = sid }

LastPlace(places) ==
    CHOOSE ij \in places :
        \A kl \in places : kl[1] < ij[1] \/ (kl[1] = ij[1] /\ kl[2] <= ij[2])

\* dealstage in stage_to_pipeline
InCatalog(pipelines, sid) == StagePlaces(pipelines, sid) # {}

\* stage_to_pipeline[sid][0]
StagePipelineId(pipelines, sid) ==
    pipelines[LastPlace(StagePlaces(pipelines, sid))[1]].id

\* stage_label.get(sid, "")
StageLabel(pipelines, sid) ==
    IF ~InCatalog(pipelines, sid) THEN <<>>
    ELSE LET ij == LastPlace(StagePlaces(pipelines, sid))
         IN Strip(pipelines[ij[1]].stages[ij[2]].label)

\* stage_probability.get(sid)
StageProbability(pipelines, sid) ==
    IF ~InCatalog(pipelines, sid) THEN NoProb
    ELSE LET ij == LastPlace(StagePlaces(pipelines, sid))
         IN ParseProbability(pipelines[ij[1]].stages[ij[2]].probability)

\* nabeller_pipeline_id: the last pipeline whose label holds 'nabeller'
NabellerPipelineId(pipelines) ==
    LET hits == { i \in 1..Len(pipelines) :
                    Contains(<<"n", "a", "b", "e", "l", "l", "e", "r">>,
                             Lower(Strip(pipelines[i].label))) }
    IN IF hits = {} THEN ""
       ELSE pipelines[CHOOSE i \in hits : \A k \in hits : k <= i].id

(* ----------------------- main.py: parsing helpers --------------------- *)

\* strftime("%Y-%m-%d") read back as a date: the midnight of the instant's day
DateOnly(t) == IF IsNull(t) THEN NaT ELSE 2 * (t \div 2)

\* Python's None and a float NaN, as values that are no text
PyNone == <<"<None>">>

PyNaN == <<"<nan>">>

\* The decimal digits; "sup2" stands for the character U+00B2, for which
\* str.isdigit holds and int() raises.
DigitValue ==
    [ c \in {"0", "1", "2", "3", "4", "5", "6", "7", "8", "9"} |->
        CASE c = "0" -> 0 [] c = "1" -> 1 [] c = "2" -> 2 [] c = "3" -> 3
          [] c = "4" -> 4 [] c = "5" -> 5 [] c = "6" -> 6 [] c = "7" -> 7
          [] c = "8" -> 8 [] c = "9" -> 9 ]

\* s.isdigit()
IsDigit(s) ==
    /\ s # <<>>
    /\ \A i \in 1..Len(s) : s[i] \in DOMAIN DigitValue \cup {"sup2"}

\* int(s) of a text for which isdigit holds raises on U+00B2
IntRaises(s) == \E i \in 1..Len(s) : s[i] = "sup2"

\* Milliseconds in a half day, half days from 1970-01-01 to 2024-01-01, and
\* the half days from 1970-01-01 at which the year 10000 starts:
\* datetime.fromtimestamp raises from there on.
MsPerHalfDay == 43200000

EpochOffset == 39446

YearTenThousand == 5865794

\* int(s) / 1000 seconds after 1970-01-01 in whole half days, by long
\* division from digit i on; not more than YearTenThousand
RECURSIVE EpochHalfDays(_, _, _, _)
EpochHalfDays(s, i, q, r) ==
    IF i > Len(s) THEN q
    ELSE LET n == r * 10 + DigitValue[s[i]]
             q2 == q * 10 + n \div MsPerHalfDay
         IN EpochHalfDays(s, i + 1,
                          IF q2 > YearTenThousand THEN YearTenThousand ELSE q2,
                          n % MsPerHalfDay)

iso_2025_03_01 ==
    <<"2", "0", "2", "5", "-", "0", "3", "-", "0", "1", "T", "0", "0", ":",
      "0", "0", ":", "0", "0", "Z">>

iso_2025_03_01_noon ==
    <<"2", "0", "2", "5", "-", "0", "3", "-", "0", "1", "T", "1", "2", ":",
      "0", "0", ":", "0", "0", "Z">>

\* pd.to_datetime(s, utc=True, errors="coerce"), month first and then day
\* first: the instant of a date text, NaT for a text that is no date
PandasToDatetime(s) ==
    CASE s = iso_2025_03_01 -> WindowStart
      [] s = iso_2025_03_01_noon -> WindowStart + 1
      [] OTHER -> NaT

\* parse_to_utc_datetime without the epoch-milliseconds branch
parse_to_utc_datetime_NoDigits(val) ==
    IF val = PyNone \/ val = PyNaN THEN NaT
    ELSE LET s == Strip(val)
         IN  IF s = <<>> \/ Lower(s) \in {s_nan, s_none} THEN NaT
             ELSE PandasToDatetime(s)

\* parse_to_utc_datetime: the instant, NaT for None
parse_to_utc_datetime(val) ==
    IF val = PyNone \/ val = PyNaN THEN NaT
    ELSE LET s == Strip(val)
         IN  IF s = <<>> \/ Lower(s) \in {s_nan, s_none} THEN NaT
             ELSE IF /\ IsDigit(s)
                     /\ ~IntRaises(s)
                     /\ EpochHalfDays(s, 1, 0, 0) < YearTenThousand
             THEN EpochHalfDays(s, 1, 0, 0) - EpochOffset
             ELSE PandasToDatetime(s)

\* A number of seconds is <<"num", s, ms>>: s whole seconds (rounded down)
\* and ms thousandths; <<"none">> is None, <<"nan">> a NaN, <<"negzero">>
\* the float -0.0 and <<"text">> a value float() does not take.
SecondsPerHour == 3600

SecondsPerDay == 86400

SecondsPerHalfDay == 43200

\* round(seconds / unit * 10): the nearest whole number, a tie going to the
\* even one.  (A tie at a number of seconds that is no multiple of 900 is
\* rounded by the binary value of the quotient.)
RoundTenths(s, ms, unit) ==
    LET tenth == unit \div 10
        q == s \div tenth
        r == s % tenth
        half == tenth \div 2
    IN  IF r > half \/ (r = half /\ ms > 0) THEN q + 1
        ELSE IF r = half THEN (IF q % 2 = 0 THEN q ELSE q + 1)
        ELSE q

\* str(n) of a natural number
RECURSIVE DecimalText(_)
DecimalText(n) ==
    LET d == CHOOSE c \in DOMAIN DigitValue : DigitValue[c] = n % 10
    IN IF n < 10 THEN <<d>> ELSE Append(DecimalText(n \div 10), d)

\* f"{v:.1f}".replace(".", ",") of v = tenths / 10
OneDecimal(tenths) ==
    DecimalText(tenths \div 10) \o <<",">> \o DecimalText(tenths % 10)

\* format_duration_from_seconds with `hours <= 24.0`
format_duration_from_seconds_DayInHours(seconds) ==
    IF seconds[1] \in {"none", "text", "nan"} THEN <<>>
    ELSE IF seconds[1] = "negzero"
    THEN <<"-", "0", ",", "0", " ", "u", "u", "r">>
    ELSE IF seconds[2] < 0 THEN <<>>
    ELSE IF seconds[2] < SecondsPerDay
            \/ (seconds[2] = SecondsPerDay /\ seconds[3] = 0)
    THEN OneDecimal(RoundTenths(seconds[2], seconds[3], SecondsPerHour))
            \o <<" ", "u", "u", "r">>
    ELSE OneDecimal(RoundTenths(seconds[2], seconds[3], SecondsPerDay))
            \o <<" ", "d", "a", "g", "e", "n">>

format_duration_from_seconds(seconds) ==
    IF seconds[1] \in {"none", "text", "nan"} THEN <<>>
    ELSE IF seconds[1] = "negzero"
    THEN <<"-", "0", ",", "0", " ", "u", "u", "r">>
    ELSE IF seconds[2] < 0 THEN <<>>
    ELSE IF seconds[2] < SecondsPerDay
    THEN OneDecimal(RoundTenths(seconds[2], seconds[3], SecondsPerHour))
            \o <<" ", "u", "u", "r">>
    ELSE OneDecimal(RoundTenths(seconds[2], seconds[3], SecondsPerDay))
            \o <<" ", "d", "a", "g", "e", "n">>

\* int(s) of decimal digits
RECURSIVE NatOf(_)
NatOf(s) ==
    IF s = <<>> THEN 0
    ELSE NatOf(SubSeq(s, 1, Len(s) - 1)) * 10 + DigitValue[s[Len(s)]]

\* infer_seconds_from_latest_time of None, of 'nan', of a whole number
\* written in decimal digits with or without a minus sign, and of a text
\* that is no number; a value above 1e9 is taken as milliseconds
infer_seconds_from_latest_time(val) ==
    IF val = PyNone \/ val = <<>> THEN <<"none">>
    ELSE LET s == Strip(val)
         IN  IF Lower(s) = s_nan THEN <<"none">>
             ELSE IF s # <<>> /\ Head(s) = "-" /\ IsDigit(Tail(s))
                     /\ ~IntRaises(Tail(s))
             THEN IF NatOf(Tail(s)) = 0 THEN <<"negzero">> ELSE <<"none">>
             ELSE IF ~IsDigit(s) \/ IntRaises(s) THEN <<"none">>
             ELSE LET x == NatOf(s)
                  IN IF x > 1000000000
                     THEN <<"num", x \div 1000, x % 1000>>
                     ELSE <<"num", x, 0>>

\* compute_time_in_stage: (time_in_stage, date_entered, date_exited)
compute_time_in_stage(entered_val, exited_val, latest_time_val, now_utc) ==
    LET entered_dt == parse_to_utc_datetime(entered_val)
        exited_dt == parse_to_utc_datetime(exited_val)
        end_dt == IF IsNull(exited_dt) THEN now_utc ELSE exited_dt
        seconds ==
            IF ~IsNull(entered_dt)
            THEN <<"num", (end_dt - entered_dt) * SecondsPerHalfDay, 0>>
            ELSE infer_seconds_from_latest_time(latest_time_val)
    IN << format_duration_from_seconds(seconds),
          DateOnly(entered_dt), DateOnly(exited_dt) >>

(* ------------------------ main.py: business rules ---------------------- *)

\* compute_status_bucket without the nabeller terminal-loss rule
compute_status_bucket_NoOverride(dealstage, dealstage_label, is_nabeller, prob) ==
    IF Lower(Strip(dealstage_label)) = s_afgesloten THEN s_verloren
    ELSE IF prob # NoProb /\ prob = 0 THEN s_verloren
    ELSE s_actief

\* compute_status_bucket without its final return: Python returns None
compute_status_bucket_NoDefault(dealstage, dealstage_label, is_nabeller, prob) ==
    IF Lower(Strip(dealstage_label)) = s_afgesloten THEN s_verloren
    ELSE IF is_nabeller /\ dealstage \in NABELLER_TERMINAL_LOSS_STAGE_IDS
    THEN s_verloren
    ELSE IF prob # NoProb /\ prob = 0 THEN s_verloren
    ELSE s_none

compute_status_bucket(dealstage, dealstage_label, is_nabeller, prob) ==
    IF Lower(Strip(dealstage_label)) = s_afgesloten THEN s_verloren
    ELSE IF is_nabeller /\ dealstage \in NABELLER_TERMINAL_LOSS_STAGE_IDS
    THEN s_verloren
    ELSE IF prob # NoProb /\ prob = 0 THEN s_verloren
    ELSE s_actief

check_container_valid(geboortedatum_bekend, patient_id, verzekeraar) ==
    LET geb_ok == Lower(Strip(geboortedatum_bekend)) = <<"t", "r", "u", "e">>
        patient_ok == /\ patient_id # <<>>
                      /\ Strip(patient_id) # <<>>
                      /\ Lower(Strip(patient_id)) \notin {s_nan, s_none, <<>>}
        verz_clean == IF verzekeraar # <<>> THEN Lower(Strip(verzekeraar))
                                            ELSE <<>>
        verz_ok == /\ verz_clean # <<>>
                   /\ verz_clean \notin
                        {s_nan, s_none, <<>>,
                         <<"o", "n", "b", "e", "k", "e", "n", "d">>}
    IN geb_ok /\ patient_ok /\ verz_ok

\* The branch of compute_declarabel_status that an insurer takes.
EtlGroup(verz) ==
    IF InList(verz, VGZ_GROEP) THEN "VGZ"
    ELSE IF InList(verz, DSW_GROEP) THEN "DSW"
    ELSE "OVERIG"

\* compute_declarabel_status without the container check
compute_declarabel_status_NoContainer(verzekeraar, hoeveelheid_begeleiding, vgz_voldoende, dsw_sessie, container_valid) ==
    LET verz == IF verzekeraar # <<>> THEN Lower(Strip(verzekeraar)) ELSE <<>>
        begeleiding == IF hoeveelheid_begeleiding # <<>>
                       THEN Lower(Strip(hoeveelheid_begeleiding)) ELSE <<>>
    IN  IF begeleiding = <<>> \/ begeleiding \in {s_nan, s_none, <<>>}
        THEN <<FALSE, "">>
        ELSE IF EtlGroup(verz) = "OVERIG" /\ begeleiding = b_alleen_de_intake
        THEN <<TRUE, "DROPOUT">>
        ELSE IF begeleiding \in {b_intake_en_eerste_themasessie,
                                 b_intake_minder, b_intake_meer, b_volledig}
        THEN <<TRUE, "VOLLEDIG">>
        ELSE <<FALSE, "">>

\* (declarabel_status, declarabel_type)
compute_declarabel_status(verzekeraar, hoeveelheid_begeleiding, vgz_voldoende, dsw_sessie, container_valid) ==
    LET verz == IF verzekeraar # <<>> THEN Lower(Strip(verzekeraar)) ELSE <<>>
        begeleiding == IF hoeveelheid_begeleiding # <<>>
                       THEN Lower(Strip(hoeveelheid_begeleiding)) ELSE <<>>
        vgz_ok == Lower(Strip(vgz_voldoende)) = <<"t", "r", "u", "e">>
        dsw_ok == Lower(Strip(dsw_sessie)) = <<"t", "r", "u", "e">>
        grp == EtlGroup(verz)
    IN  IF ~container_valid THEN <<FALSE, "">>
        ELSE IF begeleiding = <<>> \/ begeleiding \in {s_nan, s_none, <<>>}
        THEN <<FALSE, "">>
        ELSE IF grp = "VGZ"
        THEN IF ~vgz_ok THEN <<FALSE, "">>
             ELSE IF begeleiding = b_intake_minder THEN <<TRUE, "DROPOUT">>
             ELSE IF begeleiding \in {b_intake_meer, b_volledig}
             THEN <<TRUE, "VOLLEDIG">>
             ELSE <<FALSE, "">>
        ELSE IF grp = "DSW"
        THEN IF ~dsw_ok THEN <<FALSE, "">>
             ELSE IF begeleiding \in {b_intake_en_eerste_themasessie,
                                      b_intake_minder, b_intake_meer, b_volledig}
             THEN <<TRUE, "VOLLEDIG">>
             ELSE <<FALSE, "">>
        ELSE IF begeleiding = b_alleen_de_intake THEN <<TRUE, "DROPOUT">>
        ELSE IF begeleiding \in {b_intake_en_eerste_themasessie,
                                 b_intake_minder, b_intake_meer, b_volledig}
        THEN <<TRUE, "VOLLEDIG">>
        ELSE <<FALSE, "">>

\* fetch_hoeveelheid_begeleiding_set_op: the earliest instant at which the
\* property history gives hoeveelheid_begeleiding a value; None without one
fetch_hoeveelheid_begeleiding_set_op(history) ==
    IF history = {} THEN NaT
    ELSE CHOOSE t \in history : \A u \in history : t <= u

\* days_to_declarable: '' is the empty text, a number is held in tenths of a
\* day.  An instant of the deal is None where its property is missing or
\* does not parse.
NoText == <<>>

\* days_to_declarable counted from createdate for every deal
DaysToDeclarable_CreatedOnly(d, is_nabeller, declarabel_status, set_op) ==
    IF declarabel_status /\ ~IsNull(set_op) /\ ~IsNull(d.createdate)
    THEN <<5 * (set_op - d.createdate)>>
    ELSE NoText

\* days_to_declarable: a half day is five tenths of a day
DaysToDeclarable(d, is_nabeller, declarabel_status, set_op) ==
    LET inflow_dts == { d.date_entered_inflow[sid] :
                          sid \in NABELLER_INFLOW_STAGE_IDS } \ {NaT}
        first == IF is_nabeller /\ inflow_dts # {}
                 THEN CHOOSE t \in inflow_dts : \A u \in inflow_dts : t <= u
                 ELSE NaT
        baseline_dt == IF IsNull(first) THEN d.createdate ELSE first
    IN  IF declarabel_status /\ ~IsNull(set_op) /\ ~IsNull(baseline_dt)
        THEN <<5 * (set_op - baseline_dt)>>
        ELSE NoText

\* The row run_pipeline appends to final_rows for deal d.
EtlRow(d) ==
    LET dealstage == d.dealstage
        dealstage_label == StageLabel(d.pipelines, dealstage)
        pipeline_id ==
            IF d.pipeline = "" /\ InCatalog(d.pipelines, dealstage)
            THEN StagePipelineId(d.pipelines, dealstage) ELSE d.pipeline
        nabeller_pipeline_id == NabellerPipelineId(d.pipelines)
        is_nabeller == nabeller_pipeline_id # ""
                         /\ pipeline_id = nabeller_pipeline_id
        status_bucket ==
            compute_status_bucket(dealstage, dealstage_label, is_nabeller,
                                  StageProbability(d.pipelines, dealstage))
        entered_val == IF dealstage # "" THEN d.date_entered ELSE NaT
        container_valid ==
            check_container_valid(d.geboortedatum_bekend, d.patient_id,
                                  d.verzekeraar)
        decl == compute_declarabel_status(d.verzekeraar,
                    d.hoeveelheid_begeleiding, d.vgz_voldoende_begeleiding,
                    d.dsw_1e_sessie_is_geweest, container_valid)
        hoeveelheid_begeleiding_clean == Lower(Strip(d.hoeveelheid_begeleiding))
        hoeveelheid_begeleiding_set_op ==
            IF /\ hoeveelheid_begeleiding_clean # <<>>
               /\ hoeveelheid_begeleiding_clean \notin {s_nan, s_none, <<>>}
            THEN fetch_hoeveelheid_begeleiding_set_op(d.history)
            ELSE NaT
    IN [ dealstage |-> dealstage,
         dealstage_label |-> dealstage_label,
         pipeline_id |-> pipeline_id,
         is_nabeller |-> is_nabeller,
         status_bucket |-> status_bucket,
         date_entered_stage |-> DateOnly(entered_val),
         createdate |-> d.createdate,
         verzekeraar |-> d.verzekeraar,
         begeleiding |-> d.hoeveelheid_begeleiding,
         vgz_voldoende |-> d.vgz_voldoende_begeleiding,
         dsw_sessie |-> d.dsw_1e_sessie_is_geweest,
         container_valid |-> container_valid,
         hoeveelheid_begeleiding_set_op |-> hoeveelheid_begeleiding_set_op,
         declarabel_status |-> decl[1],
         declarabel_type |-> decl[2],
         declarabel_op |-> IF decl[1] /\ ~IsNull(hoeveelheid_begeleiding_set_op)
                           THEN hoeveelheid_begeleiding_set_op ELSE NaT,
         days_to_declarable |->
             DaysToDeclarable(d, is_nabeller, decl[1],
                              hoeveelheid_begeleiding_set_op) ]

\* The row of the exported file as load_data reads it back: the file has no
\* milestone columns, and a date is read from its text.
ExportedRow(o) ==
    [ cols |-> {"status_bucket", "dealstage_label", "verzekeraar"},
      dealstage |-> IF o.dealstage = "" THEN "nan" ELSE o.dealstage,
      status_bucket |-> o.status_bucket,
      dealstage_label |-> o.dealstage_label,
      verzekeraar |-> o.verzekeraar,
      begeleiding |-> o.begeleiding,
      vgz_voldoende |-> o.vgz_voldoende,
      dsw_sessie |-> o.dsw_sessie,
      ts_in_begeleiding |-> NaT,
      datum_afgesloten |-> NaT,
      ts_warme_aanvraag |-> NaT,
      date_entered_stage |-> o.date_entered_stage,
      createdate |-> o.createdate ]

(* ------------------------------ inputs --------------------------------- *)

Dates ==
    ((TS_DSW - DateSpread)..(TS_DSW + DateSpread))
        \cup ((TS_VGZ - DateSpread)..(TS_VGZ + DateSpread))

OptDates == Dates \cup {NaT}

InsurerCells ==
    { <<"V", "G", "Z">>,
      <<"V", "G", "Z", " ", "Z", "o", "r", "g", "v", "e", "r", "z", "e", "k",
        "e", "r", "a", "a", "r">>,
      <<"D", "S", "W">>,
      <<"D", "S", "W", "-", "V", "G", "Z">>,
      <<"C", "Z">>,
      <<"U", "n", "k", "n", "o", "w", "n", " ", "I", "n", "s", "u", "r", "e",
        "r", " ", "C", "o">>,
      <<"o", "n", "b", "e", "k", "e", "n", "d">>,
      <<"n", "o", "n", "e">>,
      <<>> }

BegeleidingCells ==
    { <<"a", "l", "l", "e", "e", "n", " ", "d", "e", " ", "i", "n", "t", "a",
        "k", "e">>,
      <<"i", "n", "t", "a", "k", "e", " ", "e", "n", " ", "m", "i", "n", "d",
        "e", "r", " ", "d", "a", "n", " ", "d", "e", " ", "h", "e", "l", "f",
        "t", " ", "v", "a", "n", " ", "d", "e", " ", "s", "e", "s", "s", "i",
        "e", "s">>,
      <<"v", "o", "l", "l", "e", "d", "i", "g", "e", " ", "b", "e", "g", "e",
        "l", "e", "i", "d", "i", "n", "g", " ", "g", "e", "v", "o", "l", "g",
        "d">> }

AllCols == {"status_bucket", "dealstage_label", "verzekeraar"}

\* The instants the clock shows when load_data or run_pipeline reads it:
\* noon of 2025-06-01 and of the day after.
Clocks == {WindowStart + 185, WindowStart + 187}

\* The later of them
LastClock == WindowStart + 187

\* Rows of a file that carries the milestone columns ts_in_begeleiding and
\* datum_afgesloten: every insurer, flag and milestone date.
CsvDeclRows ==
    [ cols : {AllCols},
      dealstage : {"15413223", "15413226", "114855767"},
      status_bucket : {s_actief},
      dealstage_label : {<<"I", "n", "t", "a", "k", "e">>},
      verzekeraar : InsurerCells,
      begeleiding : BegeleidingCells,
      vgz_voldoende : {<<"J", "a">>, <<"t", "r", "u", "e">>},
      dsw_sessie : {<<"J", "a">>, <<>>},
      ts_in_begeleiding : OptDates,
      datum_afgesloten : OptDates,
      ts_warme_aanvraag : {NaT},
      date_entered_stage : {NaT, TS_VGZ + 1},
      createdate : {NaT, TS_DSW} ]

\* Rows that vary the lifecycle columns.
CsvLifeRows ==
    [ cols : {AllCols, AllCols \ {"status_bucket"},
              AllCols \ {"dealstage_label"}, AllCols \ {"verzekeraar"}},
      dealstage : {"15413223", "114855767", "15413226", "15413632",
                   "25956255", "81675521"},
      status_bucket : {s_actief, s_verloren, <<>>},
      dealstage_label : {<<"A", "f", "g", "e", "s", "l", "o", "t", "e", "n">>,
                         <<" ", "A", "F", "G", "E", "S", "L", "O", "T", "E",
                           "N", " ">>,
                         <<"I", "n", "t", "a", "k", "e">>},
      verzekeraar : {<<"C", "Z">>, <<" ", "v", "g", "z", " ">>},
      begeleiding : {<<"A", "l", "l", "e", "e", "n", " ", "d", "e", " ", "i",
                       "n", "t", "a", "k", "e">>},
      vgz_voldoende : {<<" ", "J", "a">>},
      dsw_sessie : {<<>>},
      ts_in_begeleiding : {NaT},
      datum_afgesloten : {NaT},
      ts_warme_aanvraag : {NaT, TS_VGZ - 1},
      date_entered_stage : {NaT, TS_VGZ + 1},
      createdate : {TS_DSW, TS_VGZ + 1} ]

\* A catalogue of two pipelines that lists stage sid, when listed holds, in
\* the second pipeline when in_nabeller holds and in the first otherwise.
MkPipelines(sid, listed, label, probability, in_nabeller, nabeller_label) ==
    LET st == [id |-> sid, label |-> label, probability |-> probability]
        other == [id |-> "15415582",
                  label |-> <<"I", "n", "f", "o">>, probability |-> "0.2"]
    IN << [id |-> "default",
           label |-> <<"S", "a", "l", "e", "s">>,
           stages |-> IF listed /\ ~in_nabeller THEN <<other, st>>
                                               ELSE <<other>>],
          [id |-> "75279045",
           label |-> nabeller_label,
           stages |-> IF listed /\ in_nabeller THEN <<st>> ELSE <<>>] >>

NabellerLabel == <<"N", "a", "b", "e", "l", "l", "e", "r", "s", " ">>

PlainLabel == <<"R", "e", "t", "e", "n", "t", "i", "e">>

\* A deal that never entered a callback-inflow stage
NoInflow == [sid \in NABELLER_INFLOW_STAGE_IDS |-> NaT]

\* Deals that vary the insurer, the guidance category, the flags, the
\* container fields and the property history.
EtlDeclDeals ==
    { [ dealstage |-> sc[1],
        pipeline |-> "default",
        pipelines |-> MkPipelines(sc[1], TRUE, sc[2], "0.2", FALSE, PlainLabel),
        verzekeraar |-> f.verzekeraar,
        hoeveelheid_begeleiding |-> f.hoeveelheid_begeleiding,
        vgz_voldoende_begeleiding |-> f.vgz,
        dsw_1e_sessie_is_geweest |-> f.dsw,
        geboortedatum_bekend |-> f.geb,
        patient_id |-> f.patient,
        history |-> f.history,
        date_entered |-> f.entered,
        date_entered_inflow |-> NoInflow,
        createdate |-> WindowStart ] :
        sc \in { <<"15413223", <<"I", "n", " ", "b", "e", "g", "e", "l", "e",
                                 "i", "d", "i", "n", "g">> >>,
                 <<"15413226", <<"A", "f", "g", "e", "s", "l", "o", "t", "e",
                                 "n">> >> },
        f \in [ verzekeraar : InsurerCells,
                hoeveelheid_begeleiding :
                    BegeleidingCells \cup {b_intake_en_eerste_themasessie, <<>>},
                vgz : {<<"t", "r", "u", "e">>, <<"J", "a">>},
                dsw : {<<"T", "r", "u", "e">>, <<>>},
                geb : {<<"t", "r", "u", "e">>, <<"f", "a", "l", "s", "e">>},
                patient : {<<"1", "2", "3", "4", "5">>, <<>>},
                history : SUBSET {TS_VGZ - DateSpread, WindowStart + 2},
                entered : {NaT, WindowStart + 1} ] }

\* Deals that vary the stage, its catalogue entry and the pipeline.
EtlLifeDeals ==
    { [ dealstage |-> f.dealstage,
        pipeline |-> f.pipeline,
        pipelines |-> MkPipelines(f.dealstage, f.listed, f.label,
                                  f.probability, f.in_nabeller, f.nabeller_label),
        verzekeraar |-> <<"C", "Z">>,
        hoeveelheid_begeleiding |-> f.hoeveelheid_begeleiding,
        vgz_voldoende_begeleiding |-> <<>>,
        dsw_1e_sessie_is_geweest |-> <<>>,
        geboortedatum_bekend |-> <<"t", "r", "u", "e">>,
        patient_id |-> <<"1", "2", "3", "4", "5">>,
        history |-> {WindowStart + 2},
        date_entered |-> WindowStart + 1,
        date_entered_inflow |-> NoInflow,
        createdate |-> WindowStart ] :
        f \in [ dealstage : {"15413223", "15413226", "15413632", "81675521",
                             "96512011", "99999999", ""},
                listed : BOOLEAN,
                label : {<<"A", "f", "g", "e", "s", "l", "o", "t", "e", "n">>,
                         <<" ", "A", "F", "G", "E", "S", "L", "O", "T", "E",
                           "N", " ">>,
                         <<"I", "n", "t", "a", "k", "e">>},
                probability : {"0.0", "1.0", "None", "abc"},
                in_nabeller : BOOLEAN,
                nabeller_label : {NabellerLabel, PlainLabel},
                pipeline : {"", "default", "75279045"},
                hoeveelheid_begeleiding : {b_volledig, <<>>} ] }

\* Deals of the callback pipeline and of the default one that vary the entry
\* dates of the callback-inflow stages, createdate and the property history.
\* A deal in an inflow stage entered its stage when it entered that stage.
EtlBaselineDeals ==
    { [ dealstage |-> f.dealstage,
        pipeline |-> f.pipeline,
        pipelines |-> MkPipelines(f.dealstage, TRUE,
                                  <<"I", "n", "s", "t", "r", "o", "o", "m">>,
                                  "0.2", f.pipeline = "75279045",
                                  f.nabeller_label),
        verzekeraar |-> <<"C", "Z">>,
        hoeveelheid_begeleiding |-> b_volledig,
        vgz_voldoende_begeleiding |-> <<>>,
        dsw_1e_sessie_is_geweest |-> <<>>,
        geboortedatum_bekend |-> f.geb,
        patient_id |-> <<"1", "2", "3", "4", "5">>,
        history |-> f.history,
        date_entered |-> IF f.dealstage \in NABELLER_INFLOW_STAGE_IDS
                         THEN f.inflow[f.dealstage] ELSE WindowStart + 1,
        date_entered_inflow |-> f.inflow,
        createdate |-> f.createdate ] :
        f \in [ dealstage : {"116831596", "81675521"},
                pipeline : {"default", "75279045"},
                nabeller_label : {NabellerLabel, PlainLabel},
                geb : {<<"t", "r", "u", "e">>, <<"f", "a", "l", "s", "e">>},
                history : {{}, {WindowStart + 4}, {WindowStart + 4, WindowStart + 7}},
                inflow : [NABELLER_INFLOW_STAGE_IDS ->
                            {NaT, WindowStart - 3, WindowStart + 1}],
                createdate : {NaT, WindowStart} ] }

NoRec == [none |-> TRUE]

(* ------------------------------ actions -------------------------------- *)

Init ==
    /\ phase = "idle"
    /\ deal = NoRec
    /\ out = NoRec
    /\ row = NoRec
    /\ view = NoRec
    /\ run = NoRec
    /\ call = NoRec

\* run_pipeline's loop body on one deal of the batch D: the row it exports
EtlProcessDeal(D) ==
    /\ phase = "idle"
    /\ \E d \in D :
          /\ deal' = d
          /\ out' = EtlRow(d)
    /\ phase' = "exported"
    /\ UNCHANGED <<row, view, run, call>>

\* load_data on the row the ETL exported
DashLoadExport ==
    /\ phase = "exported"
    /\ row' = ExportedRow(out)
    /\ \E nu \in Clocks : view' = LoadRow(ExportedRow(out), nu)
    /\ phase' = "export_loaded"
    /\ UNCHANGED <<deal, out, run, call>>

\* load_data on a row of a file that carries the milestone columns, the
\* clock showing an instant of C
DashLoadCsv(R, C) ==
    /\ phase = "idle"
    /\ \E r \in R, nu \in C :
          /\ row' = r
          /\ view' = LoadRow(r, nu)
    /\ phase' = "csv_loaded"
    /\ UNCHANGED <<deal, out, run, call>>

\* the dashboard script runs again: load_data on the same file, later
DashReload ==
    /\ phase \in {"csv_loaded", "export_loaded"}
    /\ \E nu \in Clocks :
          /\ nu > view.nu
          /\ view' = LoadRow(row, nu)
    /\ phase' = "reloaded"
    /\ UNCHANGED <<deal, out, row, run, call>>

\* the next run starts from scratch
Reset ==
    /\ phase # "idle"
    /\ phase' = "idle"
    /\ deal' = NoRec
    /\ out' = NoRec
    /\ row' = NoRec
    /\ view' = NoRec
    /\ UNCHANGED <<run, call>>

Next ==
    \/ EtlProcessDeal(EtlDeclDeals)
    \/ EtlProcessDeal(EtlLifeDeals)
    \/ EtlProcessDeal(EtlBaselineDeals)
    \/ DashLoadExport
    \/ DashLoadCsv(CsvDeclRows, {LastClock})
    \/ DashLoadCsv(CsvLifeRows, Clocks)
    \/ DashReload
    \/ Reset

Spec == Init /\ [][Next]_vars

(* ------------------- main.py: run_pipeline, the batch ------------------ *)

\* timedelta(days=14) in half days
WindowDays == 28

\* limit=100: the cursor of the page after the one at cursor `after`
PageLimit == 100

\* The ids of the deals the CRM holds; deal x has the contact x.
DealIds == {"d1", "d2"}

\* resp.results of a page that holds deals
Pages == { <<"d1">>, <<"d2">>, <<"d1", "d2">> }

\* end_goal = datetime.now(): the instant the run starts
EndGoals == {WindowStart + WindowDays, WindowStart + WindowDays + ExtraHalfDays}

\* df.drop_duplicates(subset=["deal_id"]) keeping every row
drop_duplicates_KeepAll(rows) == rows

\* df.drop_duplicates(subset=["deal_id"]): the first row of each deal_id
RECURSIVE drop_duplicates(_)
drop_duplicates(rows) ==
    IF rows = <<>> THEN <<>>
    ELSE LET front == SubSeq(rows, 1, Len(rows) - 1)
             last == rows[Len(rows)]
         IN IF \E j \in 1..Len(front) : front[j].deal_id = last.deal_id
            THEN drop_duplicates(front)
            ELSE Append(drop_duplicates(front), last)

\* contact_ids: the contacts of the fetched deals
ContactIds(all_deals) == { all_deals[i] : i \in 1..Len(all_deals) }

\* run_pipeline sends the search request of the page at the cursor of the
\* current window; requests, repeated, response and got_429 are its records
\* of the requests sent and of the answers.
Request == <<run.current_start, run.current_end, run.after>>

Sent(response) ==
    [run EXCEPT !.requests = run.requests \cup {Request},
                !.repeated = run.repeated \/ Request \in run.requests,
                !.response = response,
                !.got_429 = run.got_429 \/ response = "429"]

\* The state of run_pipeline before its first search window.  crm_throttled
\* says that the CRM answers every search with HTTP 429; api_error and
\* contact_error record that a request has failed; windows lists the search
\* windows opened so far.
RunInit ==
    /\ phase = "idle"
    /\ deal = NoRec
    /\ out = NoRec
    /\ row = NoRec
    /\ view = NoRec
    /\ call = NoRec
    /\ \E throttled \in BOOLEAN, goal \in EndGoals :
          run = [ pc |-> "window",
                  crm_throttled |-> throttled,
                  end_goal |-> goal,
                  current_start |-> WindowStart,
                  current_end |-> WindowStart,
                  after |-> 0,
                  all_deals |-> <<>>,
                  contact_data |-> {},
                  final_rows |-> <<>>,
                  exported |-> FALSE,
                  csv |-> <<>>,
                  api_error |-> FALSE,
                  contact_error |-> FALSE,
                  windows |-> <<>>,
                  requests |-> {},
                  repeated |-> FALSE,
                  response |-> "none",
                  got_429 |-> FALSE ]

\* current_end of the window that starts at current_start
WindowEnd(current_start, end_goal) ==
    IF current_start + WindowDays > end_goal
    THEN end_goal ELSE current_start + WindowDays

\* the next window without the cap at end_goal
OpenWindow_NoCap ==
    /\ run.pc = "window"
    /\ run.current_start < run.end_goal
    /\ run' = [run EXCEPT
                 !.current_end = run.current_start + WindowDays,
                 !.after = 0,
                 !.windows = Append(run.windows,
                                    <<run.current_start,
                                      run.current_start + WindowDays>>),
                 !.pc = "search"]
    /\ UNCHANGED <<phase, deal, out, row, view, call>>

\* while current_start < end_goal: the next window, its cursor at 0
OpenWindow ==
    /\ run.pc = "window"
    /\ run.current_start < run.end_goal
    /\ run' = [run EXCEPT
                 !.current_end = WindowEnd(run.current_start, run.end_goal),
                 !.after = 0,
                 !.windows = Append(run.windows,
                                    <<run.current_start,
                                      WindowEnd(run.current_start,
                                                run.end_goal)>>),
                 !.pc = "search"]
    /\ UNCHANGED <<phase, deal, out, row, view, call>>

\* the window loop ends: without deals the run returns, else it goes on
EndWindows ==
    /\ run.pc = "window"
    /\ run.current_start >= run.end_goal
    /\ run' = [run EXCEPT
                 !.pc = IF run.all_deals = <<>> THEN "done" ELSE "contacts"]
    /\ UNCHANGED <<phase, deal, out, row, view, call>>

\* do_search answers with a page of deals, with or without a next page
SearchResults ==
    /\ run.pc = "search"
    /\ ~run.crm_throttled
    /\ \E results \in Pages, has_next \in BOOLEAN :
          /\ has_next => run.after < MaxAfter
          /\ run' = [Sent("results") EXCEPT
                       !.all_deals = run.all_deals \o results,
                       !.after = IF has_next THEN run.after + PageLimit ELSE 0,
                       !.current_start =
                           IF has_next THEN run.current_start
                                       ELSE run.current_end,
                       !.pc = IF has_next THEN "search" ELSE "window"]
    /\ UNCHANGED <<phase, deal, out, row, view, call>>

\* do_search answers without results: break
SearchNoResults ==
    /\ run.pc = "search"
    /\ ~run.crm_throttled
    /\ run' = [Sent("empty") EXCEPT !.current_start = run.current_end,
                                     !.pc = "window"]
    /\ UNCHANGED <<phase, deal, out, row, view, call>>

\* status 429 handled as any other status: break
SearchThrottled_Breaks ==
    /\ run.pc = "search"
    /\ run' = [Sent("429") EXCEPT !.current_start = run.current_end,
                                   !.pc = "window"]
    /\ UNCHANGED <<phase, deal, out, row, view, call>>

\* do_search raises ApiException with status 429: time.sleep(5)
SearchThrottled ==
    /\ run.pc = "search"
    /\ run' = [Sent("429") EXCEPT !.pc = "sleep"]
    /\ UNCHANGED <<phase, deal, out, row, view, call>>

\* the sleep is over: the while True loop repeats the same request
SleepOver ==
    /\ run.pc = "sleep"
    /\ run' = [run EXCEPT !.pc = "search"]
    /\ UNCHANGED <<phase, deal, out, row, view, call>>

\* do_search raises ApiException with another status: break
SearchApiError ==
    /\ run.pc = "search"
    /\ ~run.crm_throttled
    /\ run' = [Sent("error") EXCEPT !.api_error = TRUE,
                                     !.current_start = run.current_end,
                                     !.pc = "window"]
    /\ UNCHANGED <<phase, deal, out, row, view, call>>

\* do_search raises an exception that is no ApiException: it leaves
\* run_pipeline
SearchRaises ==
    /\ run.pc = "search"
    /\ ~run.crm_throttled
    /\ run' = [Sent("raised") EXCEPT !.pc = "aborted"]
    /\ UNCHANGED <<phase, deal, out, row, view, call>>

\* the one batch of contacts is read
ReadContacts ==
    /\ run.pc = "contacts"
    /\ run' = [run EXCEPT !.contact_data = ContactIds(run.all_deals),
                          !.pc = "rows"]
    /\ UNCHANGED <<phase, deal, out, row, view, call>>

\* the batch read raises: the exception is printed
ReadContactsFails ==
    /\ run.pc = "contacts"
    /\ run' = [run EXCEPT !.contact_error = TRUE, !.pc = "rows"]
    /\ UNCHANGED <<phase, deal, out, row, view, call>>

\* for idx, d in enumerate(all_deals): the row of the next deal
AppendRow ==
    /\ run.pc = "rows"
    /\ Len(run.final_rows) < Len(run.all_deals)
    /\ LET d == run.all_deals[Len(run.final_rows) + 1]
       IN run' = [run EXCEPT
                    !.final_rows =
                        Append(run.final_rows,
                               [ deal_id |-> d,
                                 idx |-> Len(run.final_rows),
                                 has_contact |-> d \in run.contact_data ])]
    /\ UNCHANGED <<phase, deal, out, row, view, call>>

\* the frame of final_rows, without duplicates of deal_id, is written
ExportCsv ==
    /\ run.pc = "rows"
    /\ Len(run.final_rows) = Len(run.all_deals)
    /\ run' = [run EXCEPT !.csv = drop_duplicates(run.final_rows),
                          !.exported = TRUE,
                          !.pc = "done"]
    /\ UNCHANGED <<phase, deal, out, row, view, call>>

RunNext ==
    \/ OpenWindow
    \/ EndWindows
    \/ SearchResults
    \/ SearchNoResults
    \/ SearchThrottled
    \/ SleepOver
    \/ SearchApiError
    \/ SearchRaises
    \/ ReadContacts
    \/ ReadContactsFails
    \/ AppendRow
    \/ ExportCsv

RunSpec == RunInit /\ [][RunNext]_vars

\* The process is scheduled: a step that can be taken is taken.
LiveRunSpec == RunSpec /\ WF_vars(RunNext)

(* --------------------- app.py: compute_summary_stats ------------------- *)

\* None, where a statistic is returned as None
NoStat == -1

\* round(x, 1) of the fraction num / den, in tenths: the nearest tenth, and
\* the even one of the two when num / den lies half way between them
RoundHalfEven(num, den) ==
    LET q == (10 * num) \div den
        r == (10 * num) % den
    IN  IF 2 * r > den THEN q + 1
        ELSE IF 2 * r < den THEN q
        ELSE IF q % 2 = 0 THEN q
        ELSE q + 1

\* series[series >= 0]
NonNegative_KeepAll(series) == series

NonNegative(series) == SelectSeq(series, LAMBDA v : v >= 0)

\* the values of s in ascending order, as quantile orders them
RECURSIVE SortValues(_)
SortValues(s) ==
    IF s = <<>> THEN <<>>
    ELSE LET rest == SortValues(Tail(s))
             v == Head(s)
             below == SelectSeq(rest, LAMBDA w : w <= v)
             above == SelectSeq(rest, LAMBDA w : w > v)
         IN  below \o <<v>> \o above

\* s.quantile(p / 100) in hundredths: linear interpolation between the two
\* order statistics around position (n - 1) * p / 100
Quantile(s, p) ==
    LET sorted == SortValues(s)
        pos == (Len(s) - 1) * p
        lo == (pos \div 100) + 1
        frac == pos % 100
        hi == IF frac = 0 THEN lo ELSE lo + 1
    IN  100 * sorted[lo] + frac * (sorted[hi] - sorted[lo])

\* s.sum()
RECURSIVE SumValues(_)
SumValues(s) == IF s = <<>> THEN 0 ELSE Head(s) + SumValues(Tail(s))

\* ((s >= lo) & (s <= hi)).sum(), lo and hi in hundredths
CountBetween(s, lo, hi) ==
    Cardinality({ i \in 1..Len(s) : 100 * s[i] >= lo /\ 100 * s[i] <= hi })

\* compute_summary_stats(series); the statistics are in tenths
compute_summary_stats(series) ==
    LET s == NonNegative(series)
        p25 == Quantile(s, 25)
        p75 == Quantile(s, 75)
        p10 == Quantile(s, 10)
        p90 == Quantile(s, 90)
    IN  IF Len(s) = 0
        THEN [ mean |-> NoStat, median |-> NoStat, p25 |-> NoStat,
               p75 |-> NoStat, p10 |-> NoStat, p90 |-> NoStat,
               n |-> 0, n_p25_p75 |-> 0, n_p10_p90 |-> 0 ]
        ELSE [ mean |-> RoundHalfEven(SumValues(s), Len(s)),
               median |-> RoundHalfEven(Quantile(s, 50), 100),
               p25 |-> RoundHalfEven(p25, 100),
               p75 |-> RoundHalfEven(p75, 100),
               p10 |-> RoundHalfEven(p10, 100),
               p90 |-> RoundHalfEven(p90, 100),
               n |-> Len(s),
               n_p25_p75 |-> CountBetween(s, p25, p75),
               n_p10_p90 |-> CountBetween(s, p10, p90) ]

\* Lead times in days, as compute_lead_times yields them
LeadTimes == {-2, -1, 0, 1, 4}

\* The doorlooptijd column handed to compute_summary_stats
LeadTimeSeries ==
    UNION { [1..k -> LeadTimes] : k \in 0..MaxSeries }

(* --------------------- main.py: the helpers, called -------------------- *)

ms_2025_02_28_noon ==
    <<"1", "7", "4", "0", "7", "4", "4", "0", "0", "0", "0", "0", "0">>

ms_2025_03_01 ==
    <<"1", "7", "4", "0", "7", "8", "7", "2", "0", "0", "0", "0", "0">>

ms_2025_03_01_noon ==
    <<"1", "7", "4", "0", "8", "3", "0", "4", "0", "0", "0", "0", "0">>

\* The last millisecond of the year 9999 and the first of the year 10000
ms_9999_last ==
    <<"2", "5", "3", "4", "0", "2", "3", "0", "0", "7", "9", "9", "9", "9",
      "9">>

ms_10000_first ==
    <<"2", "5", "3", "4", "0", "2", "3", "0", "0", "8", "0", "0", "0", "0",
      "0">>

\* White space around a value
Pads == { <<>>, <<" ">>, <<"\t", " ">> }

\* Values handed to parse_to_utc_datetime
DateCells ==
    {PyNone, PyNaN} \cup
    { l \o core \o r :
        l \in Pads, r \in Pads,
        core \in { <<>>, s_nan, <<"N", "a", "N">>, s_none,
                   <<"N", "o", "n", "e">>, <<"N", "O", "N", "E">>,
                   <<"a", "b", "c">>, <<"1", "2", "a">>, <<"0">>,
                   <<"sup2">>, <<"0", "0">> \o ms_2025_03_01,
                   ms_2025_03_01, ms_2025_03_01_noon, ms_9999_last,
                   ms_10000_first, ms_10000_first \o <<"0", "0", "0">>,
                   iso_2025_03_01, iso_2025_03_01_noon } }

\* Values handed to format_duration_from_seconds
SecondsInputs ==
    { <<"none">>, <<"nan">>, <<"text">>, <<"negzero">> } \cup
    { <<"num", s, ms>> :
        s \in ((SecondsPerDay - DurSpread)..(SecondsPerDay + DurSpread))
                \cup {0 - SecondsPerHalfDay, -1, 0, 1, 900, 2700, 3599,
                      SecondsPerHour, 108000, 129600, 1000000, 86399000},
        ms \in {0, 999} }

\* hs_v2_latest_time_in_<stage> of a deal
LatestTimeCells ==
    { PyNone, <<>>, <<"8", "6", "3", "9", "9">>, <<"8", "6", "4", "0", "0">>,
      <<" ", "9", "0", "0">>, <<"-", "0">>, <<"-", "5">>, <<"a", "b", "c">>,
      s_nan, <<"1", "0", "0", "0", "0", "0", "0", "0", "0", "1">> }

\* format_duration_from_seconds is called
CallFormatDuration ==
    /\ call = NoRec
    /\ \E seconds \in SecondsInputs :
          call' = [ fn |-> "format_duration_from_seconds",
                    seconds |-> seconds,
                    ret |-> format_duration_from_seconds(seconds) ]
    /\ UNCHANGED <<phase, deal, out, row, view, run>>

\* parse_to_utc_datetime is called
CallParse ==
    /\ call = NoRec
    /\ \E val \in DateCells :
          call' = [ fn |-> "parse_to_utc_datetime",
                    val |-> val,
                    ret |-> parse_to_utc_datetime(val) ]
    /\ UNCHANGED <<phase, deal, out, row, view, run>>

\* compute_time_in_stage is called with the clock's instant now_utc
CallComputeTimeInStage ==
    /\ call = NoRec
    /\ \E entered_val \in {PyNone, ms_2025_03_01, iso_2025_03_01_noon,
                            <<"a", "b", "c">>},
          exited_val \in {PyNone, ms_2025_03_01_noon, ms_2025_02_28_noon},
          latest_time_val \in LatestTimeCells,
          now_utc \in Clocks :
          call' = [ fn |-> "compute_time_in_stage",
                    entered_val |-> entered_val,
                    exited_val |-> exited_val,
                    latest_time_val |-> latest_time_val,
                    now_utc |-> now_utc,
                    ret |-> compute_time_in_stage(entered_val, exited_val,
                                                  latest_time_val, now_utc) ]
    /\ UNCHANGED <<phase, deal, out, row, view, run>>

\* compute_summary_stats is called
CallComputeSummaryStats ==
    /\ call = NoRec
    /\ \E series \in LeadTimeSeries :
          call' = [ fn |-> "compute_summary_stats",
                    series |-> series,
                    ret |-> compute_summary_stats(series) ]
    /\ UNCHANGED <<phase, deal, out, row, view, run>>

\* the helper returns
CallReturn ==
    /\ call # NoRec
    /\ call' = NoRec
    /\ UNCHANGED <<phase, deal, out, row, view, run>>

CallNext ==
    \/ CallFormatDuration
    \/ CallParse
    \/ CallComputeTimeInStage
    \/ CallComputeSummaryStats
    \/ CallReturn

CallSpec == Init /\ [][CallNext]_vars

(* ------------------------------ claims --------------------------------- *)

\* load_data has filled in the derived columns of row
Loaded == phase \in {"csv_loaded", "export_loaded", "reloaded"}

\* run_pipeline has built the exported row of deal
Exported == phase \in {"exported", "export_loaded"}

\* The text of the row's status_bucket column says 'actief' / 'verloren'
RowBucketIs(s) == "status_bucket" \in row.cols /\ ColStr(row.status_bucket) = s

\* The row's stage label, trimmed and case-insensitive, is 'afgesloten'
RowLabelClosed ==
    /\ "dealstage_label" \in row.cols
    /\ Lower(Strip(ColStr(row.dealstage_label))) = s_afgesloten

\* C1 as stated: a record in a terminal stage is never active and its phase
\* is the one the terminal mapping gives for the stage, whatever the
\* status_bucket column says.
C1_TerminalBucketIgnoresStatus ==
    (Loaded /\ row.dealstage \in DOMAIN TERMINAL_STAGES) =>
        /\ ~view.Is_Actief
        /\ view.Fase = TERMINAL_STAGES[row.dealstage]

\* C1 as amended: a record in a terminal stage is never active, and its phase
\* is the one the terminal mapping gives for the stage unless status_bucket
\* is 'verloren' and the stage label is 'afgesloten': then the phase is
\* 'Geen interesse / Verloren'.
C1_TerminalNeverActive ==
    (Loaded /\ row.dealstage \in DOMAIN TERMINAL_STAGES) =>
        /\ ~view.Is_Actief
        /\ view.Fase = IF RowBucketIs(s_verloren) /\ RowLabelClosed
                       THEN "Geen interesse / Verloren"
                       ELSE TERMINAL_STAGES[row.dealstage]

\* A terminal-stage row whose status_bucket says 'actief' has been loaded.
C1_Witness ==
    /\ Loaded
    /\ row.dealstage \in DOMAIN TERMINAL_STAGES
    /\ RowBucketIs(s_actief)
    /\ ~view.Is_Actief

\* C2: with the confirmation flag affirmative, a VGZ-group row is declarable
\* exactly when its gating date is strictly after 2024-11-01, a DSW-group row
\* exactly when its gating date is on or after 2024-08-01, and a row of another
\* known insurer exactly when its gating date is strictly after 2024-11-01.
C2_ThresholdFlip ==
    Loaded =>
        LET grp == DashGroup(DashVerz(row))
            declarable == ~IsNull(view.datum_declarabel)
        IN  /\ (grp = "VGZ" /\ VgzFlagJa(row)) =>
                 (declarable <=> (~IsNull(DtAfgesloten(row))
                                    /\ DtAfgesloten(row) > TS_VGZ))
            /\ (grp = "DSW" /\ DswFlagJa(row)) =>
                 (declarable <=> (~IsNull(DtInBegeleiding(row))
                                    /\ DtInBegeleiding(row) >= TS_DSW))
            /\ (grp = "OVERIG" /\ DashVerz(row) \notin {<<>>, s_nan, s_none}) =>
                 (declarable <=> (~IsNull(DtInBegeleiding(row))
                                    /\ DtInBegeleiding(row) > TS_OVERIG))

\* A DSW-group row with the flag set and a gating date equal to the threshold
\* has been declared.
C2_Witness ==
    /\ Loaded
    /\ DashGroup(DashVerz(row)) = "DSW"
    /\ DswFlagJa(row)
    /\ DtInBegeleiding(row) = TS_DSW
    /\ view.datum_declarabel = TS_DSW

\* The cut-over date of an insurer group
ThresholdOf(grp) ==
    IF grp = "VGZ" THEN TS_VGZ ELSE IF grp = "DSW" THEN TS_DSW ELSE TS_OVERIG

\* verz of compute_declarabel_status for the exported row
EtlVerz == IF out.verzekeraar # <<>> THEN Lower(Strip(out.verzekeraar)) ELSE <<>>

\* The group a case-insensitive substring match against main.py's lists
\* resolves, VGZ before DSW before the rest
EtlSubstringGroup(verz) ==
    IF AnyIn(VGZ_GROEP, verz) THEN "VGZ"
    ELSE IF AnyIn(DSW_GROEP, verz) THEN "DSW"
    ELSE "OVERIG"

\* The flags compute_declarabel_status reads as affirmative
EtlVgzOk == Lower(Strip(out.vgz_voldoende)) = <<"t", "r", "u", "e">>

EtlDswOk == Lower(Strip(out.dsw_sessie)) = <<"t", "r", "u", "e">>

\* What the dashboard classifier returned for row
DashResult == <<view.datum_declarabel, view.Declaratie_Type>>

\* What the ETL classifier returned for deal
EtlResult == <<out.declarabel_status, out.declarabel_type>>

\* The dashboard classifier on row with insurer name v instead
DashResultFor(v) ==
    determine_declarable_status(
        [row EXCEPT !.verzekeraar = v, !.cols = @ \cup {"verzekeraar"}])

\* The ETL classifier on deal with insurer name v instead
EtlResultFor(v) ==
    compute_declarabel_status(v, out.begeleiding, out.vgz_voldoende,
                              out.dsw_sessie, out.container_valid)

\* C3: a declarable-as-of date that is set (datum_declarabel of the dashboard,
\* declarabel_op of the ETL) is on or after the cut-over date of the record's
\* insurer group.
C3_DeclarableDateNotBeforeThreshold ==
    /\ Loaded =>
         (~IsNull(view.datum_declarabel) =>
            view.datum_declarabel >= ThresholdOf(DashGroup(DashVerz(row))))
    /\ Exported =>
         (~IsNull(out.declarabel_op) =>
            out.declarabel_op >= ThresholdOf(EtlSubstringGroup(EtlVerz)))

\* The insurer names that are empty or denote an unknown insurer
UnknownInsurer(verz) ==
    verz \in { <<>>, s_nan, s_none, <<"o", "n", "b", "e", "k", "e", "n", "d">>,
               <<"u", "n", "k", "n", "o", "w", "n", " ", "i", "n", "s", "u",
                 "r", "e", "r", " ", "c", "o">> }

\* C4: a record whose insurer name is empty or denotes an unknown insurer is
\* not declarable and has no declarable date, whatever its dates, guidance
\* category and flags.
C4_UnknownInsurerNotDeclarable ==
    /\ (Loaded /\ UnknownInsurer(DashVerz(row))) =>
          DashResult = <<NaT, "Niet declarabel">>
    /\ (Exported /\ UnknownInsurer(EtlVerz)) =>
          (~out.declarabel_status /\ IsNull(out.declarabel_op))

\* C5: a VGZ-group record without its affirmative vgz_voldoende flag and a
\* DSW-group record without its affirmative dsw_sessie flag are not
\* declarable; the result for another insurer does not depend on the flags.
C5_FlagGate ==
    /\ Loaded =>
         LET grp == DashGroup(DashVerz(row))
         IN  /\ (grp = "VGZ" /\ ~VgzFlagJa(row)) => IsNull(view.datum_declarabel)
             /\ (grp = "DSW" /\ ~DswFlagJa(row)) => IsNull(view.datum_declarabel)
             /\ grp = "OVERIG" =>
                  \A f \in {<<"J", "a">>, <<>>} : \A g \in {<<"J", "a">>, <<>>} :
                     determine_declarable_status(
                         [row EXCEPT !.vgz_voldoende = f, !.dsw_sessie = g])
                       = DashResult
    /\ Exported =>
         LET grp == EtlSubstringGroup(EtlVerz)
         IN  /\ (grp = "VGZ" /\ ~EtlVgzOk) => ~out.declarabel_status
             /\ (grp = "DSW" /\ ~EtlDswOk) => ~out.declarabel_status
             /\ grp = "OVERIG" =>
                  \A f \in {<<"t", "r", "u", "e">>, <<>>} :
                  \A g \in {<<"t", "r", "u", "e">>, <<>>} :
                     compute_declarabel_status(out.verzekeraar, out.begeleiding,
                                               f, g, out.container_valid)
                       = EtlResult

\* C6: an insurer name that contains a fragment of the VGZ list is classified
\* as that fragment is, under the VGZ rules; a name that contains none but
\* contains a fragment of the DSW list is classified as that fragment is.
C6_SubstringResolvesGroup ==
    /\ Loaded =>
         /\ \A k \in 1..Len(VGZ_GROUP) :
               Contains(VGZ_GROUP[k], DashVerz(row)) =>
                  DashResult = DashResultFor(VGZ_GROUP[k])
         /\ ~AnyIn(VGZ_GROUP, DashVerz(row)) =>
               \A k \in 1..Len(DSW_GROUP) :
                  Contains(DSW_GROUP[k], DashVerz(row)) =>
                     DashResult = DashResultFor(DSW_GROUP[k])
    /\ Exported =>
         /\ \A k \in 1..Len(VGZ_GROEP) :
               Contains(VGZ_GROEP[k], EtlVerz) =>
                  EtlResult = EtlResultFor(VGZ_GROEP[k])
         /\ ~AnyIn(VGZ_GROEP, EtlVerz) =>
               \A k \in 1..Len(DSW_GROEP) :
                  Contains(DSW_GROEP[k], EtlVerz) =>
                     EtlResult = EtlResultFor(DSW_GROEP[k])

\* C7: a record whose insurer name matches a VGZ fragment and a DSW fragment
\* is declarable only under the VGZ rule: with the VGZ flag, and in the
\* dashboard on the VGZ gating date.
C7_VgzBeforeDsw ==
    /\ (Loaded /\ AnyIn(VGZ_GROUP, DashVerz(row))
               /\ AnyIn(DSW_GROUP, DashVerz(row))) =>
          (~IsNull(view.datum_declarabel) =>
              /\ VgzFlagJa(row)
              /\ view.datum_declarabel = DtAfgesloten(row)
              /\ view.datum_declarabel > TS_VGZ)
    /\ (Exported /\ AnyIn(VGZ_GROEP, EtlVerz) /\ AnyIn(DSW_GROEP, EtlVerz)) =>
          (out.declarabel_status => EtlVgzOk)

\* The row is in the won terminal stage
RowWon == row.dealstage = "15413226"

\* C8 as stated: the types Dropout and Volledig are given only to declarable
\* records that are won; a declarable record that is not won gets the type
\* 'In proces' with its gating date.
C8_TypeOnlyWhenWon ==
    Loaded =>
        /\ view.Declaratie_Type \in {"Dropout", "Volledig"} => RowWon
        /\ (~IsNull(view.datum_declarabel) /\ ~RowWon) =>
              view.Declaratie_Type = "In proces"

\* C8 as amended: a record that satisfies the declarability conditions gets
\* its gating date and the type Dropout or Volledig whether or not it is won;
\* a record that does not gets 'Niet declarabel'.
C8_TypeWhetherWonOrNot ==
    Loaded =>
        IF IsNull(DecDate(row))
        THEN DashResult = <<NaT, "Niet declarabel">>
        ELSE /\ view.datum_declarabel = DecDate(row)
             /\ view.Declaratie_Type \in {"Dropout", "Volledig"}

\* A declarable row that is not in the won stage has got the type Volledig.
C8_Witness ==
    /\ Loaded
    /\ row.dealstage = "15413223"
    /\ ~IsNull(view.datum_declarabel)
    /\ view.Declaratie_Type = "Volledig"

\* C9: a declarable record is a dropout when its guidance category matches a
\* dropout pattern and full otherwise; a record of insurer 'VGZ' with the
\* flag affirmative, closed one day after 2024-11-01 and with the category
\* 'alleen de intake' is classified (closed date, dropout).
C9_DropoutType ==
    /\ Loaded =>
         /\ ~IsNull(view.datum_declarabel) =>
               (view.Declaratie_Type = "Dropout" <=> IsDropout(row))
         /\ ( /\ DashVerz(row) = <<"v", "g", "z">>
              /\ VgzFlagJa(row)
              /\ row.datum_afgesloten = TS_VGZ + 2
              /\ Lower(Strip(ColStr(row.begeleiding))) = b_alleen_de_intake ) =>
               DashResult = <<TS_VGZ + 2, "Dropout">>
    /\ ( /\ Exported
         /\ EtlVerz = <<"v", "g", "z">>
         /\ EtlVgzOk
         /\ out.container_valid
         /\ Lower(Strip(out.begeleiding)) = b_alleen_de_intake ) =>
            EtlResult = <<TRUE, "DROPOUT">>

\* C10: a record whose stage label is 'afgesloten' is bucketed lost, with
\* the phase 'Geen interesse / Verloren', when it is not declarable; one that
\* is declarable is not made lost by its label.
C10_ClosedLabelRule ==
    (Exported /\ Lower(Strip(out.dealstage_label)) = s_afgesloten) =>
        /\ ~out.declarabel_status =>
              /\ out.status_bucket = s_verloren
              /\ phase = "export_loaded" =>
                    view.Fase = "Geen interesse / Verloren"
        /\ ( /\ out.declarabel_status
             /\ ~(out.is_nabeller
                    /\ out.dealstage \in NABELLER_TERMINAL_LOSS_STAGE_IDS)
             /\ StageProbability(deal.pipelines, out.dealstage) # 0 ) =>
              out.status_bucket # s_verloren

(* C11 - C14: the lifecycle bucketer *)

\* The label the catalogue holds for the deal's stage is 'afgesloten'
DealLabelClosed == Lower(Strip(out.dealstage_label)) = s_afgesloten

\* The deal's stage is in the nabeller terminal-loss override set
DealInOverrideSet == deal.dealstage \in NABELLER_TERMINAL_LOSS_STAGE_IDS

\* The probability text the catalogue holds for the deal's stage
DealRawProbability ==
    LET ij == LastPlace(StagePlaces(deal.pipelines, deal.dealstage))
    IN deal.pipelines[ij[1]].stages[ij[2]].probability

\* The catalogue lists the deal's stage
DealStageListed == InCatalog(deal.pipelines, deal.dealstage)

\* C11: a deal in the nabeller pipeline whose stage id is in the override
\* set {81675521, 81675523, 96512011} is bucketed 'verloren' whatever the
\* stage's win probability; a deal with such a stage id outside the nabeller
\* pipeline is bucketed by the other rules alone, 'actief' when its label is
\* not 'afgesloten' and its stage probability is not 0.0.
C11_NabellerOverride ==
    (Exported /\ DealInOverrideSet) =>
        /\ out.is_nabeller => out.status_bucket = s_verloren
        /\ ( /\ ~out.is_nabeller
             /\ ~DealLabelClosed
             /\ StageProbability(deal.pipelines, deal.dealstage) # 0 ) =>
              out.status_bucket = s_actief

\* A nabeller deal in an override stage with win probability 1.0 and a label
\* other than 'afgesloten' has been bucketed 'verloren'.
C11_Witness ==
    /\ Exported
    /\ DealInOverrideSet
    /\ out.is_nabeller
    /\ ~DealLabelClosed
    /\ DealStageListed
    /\ DealRawProbability = "1.0"
    /\ out.status_bucket = s_verloren

\* C12: a deal caught by neither the label rule nor the nabeller override is
\* bucketed 'verloren' exactly when the catalogue lists its stage with a
\* probability that is 0.0; a stage whose probability is missing or cannot be
\* parsed has the probability None and is never made 'verloren' by this rule.
C12_ZeroProbabilityRule ==
    ( /\ Exported
      /\ ~DealLabelClosed
      /\ ~(out.is_nabeller /\ DealInOverrideSet) ) =>
        /\ out.status_bucket = s_verloren <=>
              (DealStageListed /\ DealRawProbability \in {"0.0", "0"})
        /\ (DealStageListed /\ DealRawProbability \in {"None", "abc"}) =>
              /\ StageProbability(deal.pipelines, deal.dealstage) = NoProb
              /\ out.status_bucket = s_actief

\* A deal whose stage has an unparsable probability has been bucketed
\* 'actief', the earlier rules not applying.
C12_Witness ==
    /\ Exported
    /\ ~DealLabelClosed
    /\ ~(out.is_nabeller /\ DealInOverrideSet)
    /\ DealStageListed
    /\ DealRawProbability = "abc"
    /\ out.status_bucket = s_actief

\* C13: for a deal whose stage id the stage catalogue does not hold, the
\* lookups give the empty label and the probability None, the deal is never
\* bucketed 'actief' nor shown as active, and its phase is
\* 'Geen interesse / Verloren'.
C13_UnknownStageLeansLost ==
    (Exported /\ ~DealStageListed) =>
        /\ out.dealstage_label = <<>>
        /\ StageProbability(deal.pipelines, deal.dealstage) = NoProb
        /\ out.status_bucket # s_actief
        /\ phase = "export_loaded" =>
              /\ ~view.Is_Actief
              /\ view.Fase = "Geen interesse / Verloren"

\* C14: the bucketer returns 'actief' or 'verloren' for every deal; the
\* dashboard classifier returns the type 'Niet declarabel' without a date or
\* one of 'Dropout' and 'Volledig' with a date for every row; the ETL
\* classifier returns (False, '') or True with 'DROPOUT' or 'VOLLEDIG'.
C14_Totality ==
    /\ Exported =>
          /\ out.status_bucket \in {s_actief, s_verloren}
          /\ <<out.declarabel_status, out.declarabel_type>> \in
                {<<FALSE, "">>, <<TRUE, "DROPOUT">>, <<TRUE, "VOLLEDIG">>}
    /\ Loaded =>
          \/ IsNull(view.datum_declarabel)
                /\ view.Declaratie_Type = "Niet declarabel"
          \/ ~IsNull(view.datum_declarabel)
                /\ view.Declaratie_Type \in {"Dropout", "Volledig"}

\* A deal without a stage, a catalogue entry, an insurer and a guidance
\* category has been bucketed and classified, and its row loaded.
C14_Witness ==
    /\ phase = "export_loaded"
    /\ deal.dealstage = ""
    /\ ~DealStageListed
    /\ deal.hoeveelheid_begeleiding = <<>>
    /\ out.status_bucket = s_actief
    /\ out.declarabel_type = ""
    /\ view.Declaratie_Type = "Volledig"

(* C15 - C17: the batch *)

\* run_pipeline has written the export file
RunExported == run.pc = "done" /\ run.exported

\* The deal ids of a sequence of fetched deals or of rows
IdsOf(rows) == { rows[i].deal_id : i \in 1..Len(rows) }

\* The place of the first entry of all_deals with deal id x
FirstFetched(x) ==
    CHOOSE i \in 1..Len(run.all_deals) :
        /\ run.all_deals[i] = x
        /\ \A j \in 1..(i - 1) : run.all_deals[j] # x

\* C15 as stated: the exported batch holds exactly one row for every entry
\* of the fetched deal list all_deals.
C15_OneRowPerFetchedEntry ==
    RunExported => Len(run.csv) = Len(run.all_deals)

\* C15 as amended: the exported batch holds exactly one row for every deal
\* id of all_deals, the row built from the first entry with that id, in the
\* order of these first entries; a run that an exception ends exports nothing.
C15_OneRowPerDealId ==
    /\ RunExported =>
          /\ IdsOf(run.csv) = ContactIds(run.all_deals)
          /\ \A i, j \in 1..Len(run.csv) :
                /\ i # j => run.csv[i].deal_id # run.csv[j].deal_id
                /\ i < j => run.csv[i].idx < run.csv[j].idx
          /\ \A i \in 1..Len(run.csv) :
                run.csv[i].idx + 1 = FirstFetched(run.csv[i].deal_id)
    /\ run.pc = "aborted" => ~run.exported /\ run.csv = <<>>

\* A batch in which the CRM returned a deal twice has been exported with a
\* row for each of its two deals.
C15_Witness ==
    /\ RunExported
    /\ Len(run.all_deals) > Cardinality(ContactIds(run.all_deals))
    /\ Len(run.csv) = 2

\* C16: a run in which a deal search failed with an API error other than
\* HTTP 429, or in which the contact batch read failed, exports nothing.
C16_NoExportAfterCollectorFailure ==
    (run.api_error \/ run.contact_error) => ~run.exported

\* C17: when the CRM answers every deal search with HTTP 429, the page loop
\* eventually stops retrying and the run ends.
C17_ThrottledSearchEnds ==
    run.crm_throttled => <>(run.pc \in {"done", "aborted"})

(* C18: idempotence *)

\* C18: load_data takes no parameter, so running it again on the same file
\* gives every row the same derived columns, dagen_in_fase among them.
C18_ReloadGivesSameColumns ==
    [][phase' = "reloaded" =>
         /\ view'.dagen_in_fase = view.dagen_in_fase
         /\ view'.Is_Actief = view.Is_Actief
         /\ view'.Fase = view.Fase
         /\ view'.datum_declarabel = view.datum_declarabel
         /\ view'.Declaratie_Type = view.Declaratie_Type]_vars

(* C19, C20: the helpers *)

\* text is a whole number, a comma, one digit and the unit
IsOneDecimal(text, unit) ==
    LET n == Len(text) - Len(unit)
    IN /\ n >= 3
       /\ SubSeq(text, n + 1, Len(text)) = unit
       /\ text[n - 1] = ","
       /\ \A i \in (1..n) \ {n - 1} : text[i] \in DOMAIN DigitValue

\* The number of tenths that such a text shows
TenthsShown(text, unit) ==
    LET n == Len(text) - Len(unit)
    IN NatOf(SubSeq(text, 1, n - 2)) * 10 + DigitValue[text[n]]

\* tenths is s seconds and ms thousandths, in tenths of the unit of
\* unit_seconds seconds, rounded to a nearest whole number
IsRounded(tenths, s, ms, unit_seconds) ==
    LET tenth == unit_seconds \div 10
        half == tenth \div 2
    IN /\ tenths * tenth - s <= half
       /\ s - tenths * tenth <= half
       /\ (s - tenths * tenth = half) => ms = 0

\* C19: format_duration_from_seconds gives the empty text for None, for a
\* NaN, for a value float() does not take and for a negative number; hours
\* with one decimal and 'uur' for a number from 0 to below 86400 seconds;
\* days with one decimal and 'dagen' for a number of 86400 seconds or more,
\* so that the unit never goes back to hours as the seconds grow.
C19_HoursBelowOneDay ==
    (call # NoRec /\ call.fn = "format_duration_from_seconds") =>
        LET x == call.seconds
            uur == <<" ", "u", "u", "r">>
            dagen == <<" ", "d", "a", "g", "e", "n">>
        IN  /\ x[1] \in {"none", "nan", "text"} => call.ret = <<>>
            /\ x[1] = "negzero" => call.ret = <<"-", "0", ",", "0">> \o uur
            /\ (x[1] = "num" /\ x[2] < 0) => call.ret = <<>>
            /\ (x[1] = "num" /\ x[2] >= 0 /\ x[2] < 86400) =>
                  /\ IsOneDecimal(call.ret, uur)
                  /\ IsRounded(TenthsShown(call.ret, uur), x[2], x[3], 3600)
            /\ (x[1] = "num" /\ x[2] >= 86400) =>
                  /\ IsOneDecimal(call.ret, dagen)
                  /\ IsRounded(TenthsShown(call.ret, dagen), x[2], x[3], 86400)

\* 86400 seconds have been rendered as '1,0 dagen'.
C19_Witness ==
    /\ call # NoRec
    /\ call.fn = "format_duration_from_seconds"
    /\ call.seconds = <<"num", 86400, 0>>
    /\ call.ret = <<"1", ",", "0", " ", "d", "a", "g", "e", "n">>

\* The value handed to parse_to_utc_datetime is None, a NaN, empty or white
\* space, or 'nan' or 'none' in any letter case
CallValIsNull ==
    \/ call.val \in {PyNone, PyNaN}
    \/ Strip(call.val) = <<>>
    \/ Lower(Strip(call.val)) \in {s_nan, s_none}

\* it is a text for which str.isdigit holds
CallValIsDigit == call.val \notin {PyNone, PyNaN} /\ IsDigit(Strip(call.val))

\* C20 as stated: parse_to_utc_datetime gives None for a null value and for
\* a text that is no date, and for every all-digit text the instant that
\* many milliseconds after 1970-01-01.
C20_EveryDigitTextIsAnInstant ==
    (call # NoRec /\ call.fn = "parse_to_utc_datetime") =>
        /\ CallValIsNull => call.ret = NaT
        /\ CallValIsDigit => call.ret # NaT

\* C20 as amended: parse_to_utc_datetime gives None for a null value and for
\* a text that is no date; for a text of decimal digits that is a number of
\* milliseconds before the year 10000 it gives the instant that many
\* milliseconds after 1970-01-01; for another all-digit text it gives None.
C20_DigitTextBeforeYearTenThousand ==
    (call # NoRec /\ call.fn = "parse_to_utc_datetime") =>
        LET s == Strip(call.val)
        IN  /\ CallValIsNull => call.ret = NaT
            /\ s \in {<<"a", "b", "c">>, <<"1", "2", "a">>} => call.ret = NaT
            /\ (CallValIsDigit /\ ~IntRaises(s)
                   /\ EpochHalfDays(s, 1, 0, 0) < YearTenThousand) =>
                  /\ call.ret = EpochHalfDays(s, 1, 0, 0) - EpochOffset
                  /\ s = ms_2025_03_01 => call.ret = WindowStart
                  /\ s = ms_2025_03_01_noon => call.ret = WindowStart + 1
                  /\ s = <<"0">> => call.ret = 0 - EpochOffset
            /\ (CallValIsDigit /\ (IntRaises(s)
                   \/ EpochHalfDays(s, 1, 0, 0) >= YearTenThousand)) =>
                  call.ret = NaT

\* The text ' 1740830400000' with white space after it has been parsed to
\* noon of 2025-03-01, and not to None.
C20_Witness ==
    /\ call # NoRec
    /\ call.fn = "parse_to_utc_datetime"
    /\ call.val = <<" ">> \o ms_2025_03_01_noon \o <<"\t", " ">>
    /\ call.ret = WindowStart + 1

(* C21 - C25: statistics, gating dates and baselines *)

\* compute_summary_stats has been called
StatsCalled == call # NoRec /\ call.fn = "compute_summary_stats"

\* The positions of a series that hold a value >= 0
KeptPositions(series) == { i \in 1..Len(series) : series[i] >= 0 }

\* A series without its negative values
WithoutNegatives(series) == SelectSeq(series, LAMBDA v : v >= 0)

\* The statistics returned when nothing is left to summarise
NoStatistics ==
    [ mean |-> NoStat, median |-> NoStat, p25 |-> NoStat, p75 |-> NoStat,
      p10 |-> NoStat, p90 |-> NoStat, n |-> 0, n_p25_p75 |-> 0,
      n_p10_p90 |-> 0 ]

\* C21: compute_summary_stats counts and summarises only the values >= 0:
\* n is the number of such values, the statistics are those of the series
\* with its negative values removed and stay the same when one more negative
\* value is added, and with no value >= 0 the result is n = 0 with every
\* statistic None.
C21_NegativesExcluded ==
    StatsCalled =>
        /\ call.ret.n = Cardinality(KeptPositions(call.series))
        /\ call.ret = compute_summary_stats(WithoutNegatives(call.series))
        /\ \A v \in { w \in LeadTimes : w < 0 } :
              /\ compute_summary_stats(Append(call.series, v)) = call.ret
              /\ compute_summary_stats(<<v>> \o call.series) = call.ret
        /\ KeptPositions(call.series) = {} => call.ret = NoStatistics
        /\ KeptPositions(call.series) # {} =>
              /\ call.ret.mean # NoStat
              /\ call.ret.p10 <= call.ret.median
              /\ call.ret.median <= call.ret.p90

\* C21 witness: a series with a negative value between two values >= 0 has
\* been summarised: n = 2, mean 2.5, p25 = 1.8
C21_Witness ==
    /\ StatsCalled
    /\ call.series = <<1, -2, 4>>
    /\ call.ret.n = 2
    /\ call.ret.mean = 25
    /\ call.ret.p25 = 18
    /\ call.ret.n_p25_p75 = 0

\* The first date of a list of candidates that is not null, NaT when all are
RECURSIVE FirstNonNull(_)
FirstNonNull(cands) ==
    IF cands = <<>> THEN NaT
    ELSE IF Head(cands) # NaT THEN Head(cands)
    ELSE FirstNonNull(Tail(cands))

\* The candidates for the gating date of a row, in their order: the milestone
\* of the row's group, the stage-entry date when the row is in the
\* milestone's stage, created_at
GatingCandidates(r) ==
    IF DashGroup(DashVerz(r)) = "VGZ"
    THEN << r.datum_afgesloten,
            IF r.dealstage = "15413226" THEN r.date_entered_stage ELSE NaT,
            r.createdate >>
    ELSE << r.ts_in_begeleiding,
            IF r.dealstage = "15413223" THEN r.date_entered_stage ELSE NaT,
            r.createdate >>

GatingDate(r) == FirstNonNull(GatingCandidates(r))

\* C22: the gating date of a row is the first non-null of its group's
\* milestone (datum_afgesloten for the VGZ group, ts_in_begeleiding for the
\* others), the stage-entry date if the row is in the milestone's stage
\* (15413226, 15413223), and createdate; a declarable row gets that date as
\* datum_declarabel, and no row gets another date.
C22_GatingDate ==
    Loaded =>
        /\ view.datum_declarabel \in {NaT, GatingDate(row)}
        /\ view.Declaratie_Type # "Niet declarabel" =>
              view.datum_declarabel = GatingDate(row)
        /\ DtAfgesloten(row) = FirstNonNull(
              << row.datum_afgesloten,
                 IF row.dealstage = "15413226" THEN row.date_entered_stage
                                               ELSE NaT,
                 row.createdate >>)
        /\ DtInBegeleiding(row) = FirstNonNull(
              << row.ts_in_begeleiding,
                 IF row.dealstage = "15413223" THEN row.date_entered_stage
                                               ELSE NaT,
                 row.createdate >>)

\* C22 witness: a VGZ row in the closed stage without datum_afgesloten is
\* declarable as of the date it entered the stage, not as of createdate
C22_Witness ==
    /\ phase = "csv_loaded"
    /\ DashGroup(DashVerz(row)) = "VGZ"
    /\ row.datum_afgesloten = NaT
    /\ row.dealstage = "15413226"
    /\ row.date_entered_stage = TS_VGZ + 1
    /\ row.createdate = TS_DSW
    /\ view.datum_declarabel = TS_VGZ + 1
    /\ view.Declaratie_Type # "Niet declarabel"

\* C23: a row whose gating date is null (milestone, stage-entry fallback and
\* createdate all missing) gets no datum_declarabel and 'Niet declarabel',
\* whatever its insurer, flags and guidance category.
C23_NullGatingDate ==
    (Loaded /\ GatingDate(row) = NaT) =>
        /\ view.datum_declarabel = NaT
        /\ view.Declaratie_Type = "Niet declarabel"

\* C23 witness: a row of the DSW group with the flag set, in another stage
\* than in-treatment, that has a stage-entry date but neither milestone nor
\* createdate, is not declarable
C23_Witness ==
    /\ phase = "csv_loaded"
    /\ DashGroup(DashVerz(row)) = "DSW"
    /\ DswFlagJa(row)
    /\ row.ts_in_begeleiding = NaT
    /\ row.dealstage = "114855767"
    /\ row.date_entered_stage = TS_VGZ + 1
    /\ row.createdate = NaT
    /\ view.datum_declarabel = NaT
    /\ view.Declaratie_Type = "Niet declarabel"

\* C25: dagen_in_fase is the whole number of days from a baseline to the
\* clock's instant nu, the baseline being the first non-null of
\* date_entered_stage, ts_warme_aanvraag and createdate in that order; a
\* row without any of them has no dagen_in_fase.
C25_DaysInStageBaseline ==
    Loaded =>
        LET baseline == FirstNonNull(<< row.date_entered_stage,
                                        row.ts_warme_aanvraag,
                                        row.createdate >>)
        IN  IF baseline = NaT
            THEN view.dagen_in_fase = NoDays
            ELSE /\ 2 * view.dagen_in_fase <= view.nu - baseline
                 /\ view.nu - baseline < 2 * (view.dagen_in_fase + 1)

\* C25 witness: a row without a stage-entry date but with ts_warme_aanvraag
\* and a later createdate is counted from ts_warme_aanvraag
C25_Witness ==
    /\ Loaded
    /\ row.date_entered_stage = NaT
    /\ row.ts_warme_aanvraag = TS_VGZ - 1
    /\ row.createdate = TS_VGZ + 1
    /\ view.dagen_in_fase = (view.nu - (TS_VGZ - 1)) \div 2
    /\ view.dagen_in_fase # (view.nu - (TS_VGZ + 1)) \div 2

\* The parsable entry dates of the deal for the callback-inflow stages
InflowDates == { deal.date_entered_inflow[sid] :
                   sid \in {"116831596", "81686449"} } \ {NaT}

\* The deal is in the callback pipeline and entered an inflow stage
CallbackWithInflow == out.is_nabeller /\ InflowDates # {}

\* The days, in tenths, from a baseline to the instant the guidance category
\* was first set
TenthsSince(baseline) == 5 * (out.hoeveelheid_begeleiding_set_op - baseline)

\* days_to_declarable is computed: the row is declarable and the instant the
\* guidance category was set is known
DaysComputed ==
    out.declarabel_status /\ out.hoeveelheid_begeleiding_set_op # NaT

\* C24: the baseline of days_to_declarable is the earliest parsable entry
\* date of a callback-inflow stage (116831596, 81686449) for a deal of the
\* callback pipeline that has one, whatever its createdate; for every other
\* deal it is createdate; without a baseline days_to_declarable stays empty.
C24_Baseline ==
    (Exported /\ DaysComputed) =>
        IF CallbackWithInflow
        THEN \E b \in InflowDates :
                /\ \A u \in InflowDates : b <= u
                /\ out.days_to_declarable = <<TenthsSince(b)>>
        ELSE IF deal.createdate # NaT
        THEN out.days_to_declarable = <<TenthsSince(deal.createdate)>>
        ELSE out.days_to_declarable = NoText

\* C24 witness: a deal of the callback pipeline that entered both inflow
\* stages, the second one before it was created, counts from that entry
C24_Witness ==
    /\ Exported
    /\ DaysComputed
    /\ out.is_nabeller
    /\ deal.date_entered_inflow["116831596"] = WindowStart + 1
    /\ deal.date_entered_inflow["81686449"] = WindowStart - 3
    /\ deal.createdate = WindowStart
    /\ out.hoeveelheid_begeleiding_set_op = WindowStart + 4
    /\ out.days_to_declarable = <<35>>

\* C24 as stated: a deal that is no callback deal with an inflow date counts
\* from the first non-null of the date it entered its stage and createdate
C24_OrdinaryPrecedence ==
    (Exported /\ DaysComputed /\ ~CallbackWithInflow) =>
        LET entered == IF deal.dealstage # "" THEN deal.date_entered ELSE NaT
            baseline == FirstNonNull(<<entered, deal.createdate>>)
        IN  IF baseline = NaT THEN out.days_to_declarable = NoText
            ELSE out.days_to_declarable = <<TenthsSince(baseline)>>

(* C26, C27: the deal collection *)

\* The window loop of run_pipeline has ended normally
LoopEnded == run # NoRec /\ run.pc \in {"contacts", "rows", "done"}

\* No search has failed so far: no HTTP 429, no other ApiException, no
\* other exception
NoSearchError ==
    /\ ~run.got_429
    /\ ~run.api_error
    /\ run.pc # "aborted"

\* The windows opened so far start at 2025-03-01, are consecutive, are not
\* empty, last at most 14 days and end at end_goal at the latest
WindowsConsecutive ==
    LET w == run.windows
    IN  /\ w # <<>> => w[1][1] = WindowStart
        /\ \A i \in 1..Len(w) :
              /\ w[i][1] < w[i][2]
              /\ w[i][2] - w[i][1] <= WindowDays
              /\ w[i][2] <= run.end_goal
        /\ \A i \in 1..(Len(w) - 1) : w[i][2] = w[i + 1][1]

\* The requests sent so far: none twice, each for a window that was opened,
\* and a page behind the first one only after the page before it
PagesOnce ==
    /\ ~run.repeated
    /\ \A req \in run.requests :
          /\ \E i \in 1..Len(run.windows) :
                run.windows[i] = <<req[1], req[2]>>
          /\ req[3] > 0 => <<req[1], req[2], req[3] - PageLimit>> \in run.requests

\* After the loop the windows reach end_goal and the first page of every
\* window has been requested
RangeCovered ==
    LET w == run.windows
    IN  /\ w # <<>>
        /\ w[Len(w)][2] = run.end_goal
        /\ \A i \in 1..Len(w) : <<w[i][1], w[i][2], 0>> \in run.requests

\* C26: as long as no search fails, the windows opened are consecutive
\* half-open windows of at most 14 days from 2025-03-01, the last one ending
\* at end_goal once the loop has ended; every page is requested once, each
\* next page after the one before it; and the loop ends, unless a search is
\* answered with HTTP 429 or fails.
C26_WindowsCoverRange ==
    /\ [](run # NoRec /\ NoSearchError =>
             /\ WindowsConsecutive
             /\ PagesOnce
             /\ LoopEnded => RangeCovered)
    /\ <>(LoopEnded \/ ~NoSearchError)

\* C26 witness: a run that started 20 days after 2025-03-01 has ended its
\* loop without a failed search after two windows, the first of 14 days with
\* two pages, the second of 6 days
C26_Witness ==
    /\ LoopEnded
    /\ NoSearchError
    /\ run.end_goal = WindowStart + WindowDays + ExtraHalfDays
    /\ run.windows = << <<WindowStart, WindowStart + WindowDays>>,
                        <<WindowStart + WindowDays, run.end_goal>> >>
    /\ <<WindowStart, WindowStart + WindowDays, PageLimit>> \in run.requests
    /\ <<WindowStart + WindowDays, run.end_goal, 0>> \in run.requests

\* The cursor, the window and the deals collected
Collected(r) == <<r.after, r.current_start, r.current_end, r.all_deals>>

\* C27: a search answered with HTTP 429 changes neither the cursor `after`
\* nor the window bounds nor the deals collected so far, run_pipeline then
\* sleeps, and after the sleep it sends the request of the same page of the
\* same window.
C27_ThrottleKeepsPosition ==
    [][/\ (run.pc = "search" /\ run'.response = "429") =>
             /\ Collected(run') = Collected(run)
             /\ run'.pc = "sleep"
       /\ run.pc = "sleep" =>
             /\ Collected(run') = Collected(run)
             /\ run'.pc = "search"]_vars

\* C27 witness: the request for the second page of the second window, with
\* deals already collected, has been answered with HTTP 429
C27_Witness ==
    /\ run # NoRec
    /\ run.pc = "sleep"
    /\ run.response = "429"
    /\ run.after = PageLimit
    /\ run.current_start = WindowStart + WindowDays
    /\ run.all_deals # <<>>

(* C28 - C30: conversion and agreement of the two classifiers *)

\* C28: no loaded row is counted both as won and as lost: Conv_Gewonnen
\* (Declaratie_Type Dropout or Volledig) and Conv_Verloren (status_bucket
\* 'verloren') are never both true.
C28_NotWonAndLost ==
    (Loaded /\ view.has_conv) => ~(view.Conv_Gewonnen /\ view.Conv_Verloren)

\* C29: for a row exported by the ETL whose gating date lies past every
\* threshold, compute_declarabel_status says declarable exactly when
\* determine_declarable_status gives a type other than 'Niet declarabel',
\* and DROPOUT goes with Dropout, VOLLEDIG with Volledig.
C29_ClassifiersAgree ==
    (phase = "export_loaded" /\ GatingDate(row) > TS_VGZ) =>
        /\ out.declarabel_status <=> view.Declaratie_Type # "Niet declarabel"
        /\ out.declarabel_type = "DROPOUT" <=> view.Declaratie_Type = "Dropout"
        /\ out.declarabel_type = "VOLLEDIG" <=> view.Declaratie_Type = "Volledig"

\* The container fields of the deal are filled in: birth date known is
\* 'true', a patient id, an insurer that is not 'onbekend'
ContainerFilled ==
    /\ Lower(Strip(deal.geboortedatum_bekend)) = <<"t", "r", "u", "e">>
    /\ Strip(deal.patient_id) # <<>>
    /\ Lower(Strip(deal.verzekeraar)) \notin
          {<<>>, s_nan, s_none, <<"o", "n", "b", "e", "k", "e", "n", "d">>}

\* C30: in every exported row declarabel_type is 'DROPOUT' or 'VOLLEDIG'
\* exactly when declarabel_status is true and '' otherwise; declarabel_status
\* is true only with the container fields filled in and a guidance category;
\* declarabel_op is filled only when declarabel_status is true and the
\* instant the guidance category was set is known, and is that instant;
\* days_to_declarable is filled only when declarabel_op is.
C30_OutputConsistency ==
    Exported =>
        /\ out.declarabel_status <=> out.declarabel_type \in {"DROPOUT", "VOLLEDIG"}
        /\ ~out.declarabel_status => out.declarabel_type = ""
        /\ out.declarabel_status =>
              /\ ContainerFilled
              /\ out.container_valid
              /\ Strip(deal.hoeveelheid_begeleiding) # <<>>
        /\ out.declarabel_op # NaT =>
              /\ out.declarabel_status
              /\ out.hoeveelheid_begeleiding_set_op # NaT
              /\ out.declarabel_op = out.hoeveelheid_begeleiding_set_op
        /\ out.days_to_declarable # NoText => out.declarabel_op # NaT

\* C30 witness: a declarable dropout row with the instant its guidance
\* category was set, and the days counted up to it
C30_Witness ==
    /\ Exported
    /\ out.declarabel_status
    /\ out.declarabel_type = "DROPOUT"
    /\ out.declarabel_op = out.hoeveelheid_begeleiding_set_op
    /\ out.declarabel_op # NaT
    /\ out.days_to_declarable # NoText

====
